---- MODULE Spec2Model ----
(***************************************************************************)
(* A model of the evopy evolutionary-computation engine: permutation       *)
(* individuals and their operators, the NEAT genome and its innovation     *)
(* tracker, the population container, the selector, the elite archive and  *)
(* the generation loop of the environment.                                 *)
(*                                                                         *)
(* Arrays are TLA+ sequences; the code's 0-based index i is position i+1.  *)
(* Each component has its own specification (SpecPerm, SpecInnov, ...);    *)
(* the variables of the other components stay at their idle value.         *)
(***************************************************************************)
EXTENDS Integers, Sequences, FiniteSets, TLC

VARIABLES
    permutation,    \* PermuIndividual._permutation of the individual followed
    mate,           \* the array of another individual of the population
    lastOp,         \* the operator applied last to a permutation individual
    connection_ids, \* InnovationTracker._connection_ids
    split_node_ids, \* InnovationTracker._split_node_ids
    next_node_id,   \* InnovationTracker._next_node_id
    next_connection_id, \* InnovationTracker._next_connection_id
    lastCall,       \* the last tracker call: operation, key, hit, result
    options,        \* the options of the run
    population,     \* BasePopulation._population
    sorted,         \* BasePopulation._sorted
    immigrated,     \* BasePopulation._immigrated
    id_counter,     \* BaseIndividual._id_counter
    popOp,          \* the operation applied last to the population
    elite,          \* BaseElite._elite
    elite_scores,   \* BaseElite._elite_scores
    selPc,          \* where select() stands: idle, loop, done, raised_*
    n_selected,     \* n_selected of _get_selection
    sel_idx,        \* idx, the slot single_selection is filling
    n_test,         \* n_test of single_selection
    selected,       \* the list selected
    pre_selected_set, \* BaseSelector._pre_selected_set
    warnings,       \* the warnings single_selection has logged in this call
    draws,          \* the calls of single_select made in this call
    bestBefore,     \* the best individual when select() was called
    unlimited_warning, \* _valid_init has logged the warning on unlimited fails
    envPc,          \* where evolve() stands
    n_gen,          \* BaseEnvironment._n_gen
    loop_i,         \* the turns the loop of evolve() has made
    cross_idx,      \* the position of the loop of cross() in the population
    _crossed,       \* BaseCrosser._crossed
    genBest,        \* the best fitness at the end of the last generation
    prevBest,       \* the best fitness at the end of the generation before
    neat_population, \* the NEAT individuals: each one's _nodes and _connections
    _species,       \* SpeciatedPopulation._species
    _compatibility_threshold, \* SpeciatedPopulation._compatibility_threshold, in tenths
    _max_stagnation, \* SpeciatedPopulation._max_stagnation
    _generation,    \* SpeciatedPopulation._generation
    is_running,     \* InterfaceEnvironment.is_running
    is_paused,      \* InterfaceEnvironment.is_paused
    step_mode,      \* InterfaceEnvironment.step_mode
    should_stop,    \* InterfaceEnvironment.should_stop
    evolution_thread, \* where the thread of run_evolution stands, "none" before it is created
    uiPc,           \* where the UI thread stands in the handler it runs
    _n_gen,         \* BaseEnvironment._n_gen of the interactive environment
    step_requested  \* step_evolution was called and no generation has ended since

permVars == <<permutation, mate, lastOp>>
trkVars == <<connection_ids, split_node_ids, next_node_id, next_connection_id>>
callVars == <<lastCall>>
popVars == <<options, population, sorted, immigrated, id_counter, popOp>>
eliteVars == <<elite, elite_scores>>
selVars == <<selPc, n_selected, sel_idx, n_test, selected, pre_selected_set,
             warnings, draws, bestBefore, unlimited_warning>>
envVars == <<envPc, n_gen, loop_i, cross_idx, _crossed, genBest, prevBest>>
neatVars == <<neat_population>>
speciesVars == <<_species, _compatibility_threshold, _max_stagnation, _generation>>
ifaceVars == <<is_running, is_paused, step_mode, should_stop, evolution_thread,
               uiPc, _n_gen, step_requested>>
vars == <<permVars, trkVars, callVars, popVars, eliteVars, selVars, envVars,
          neatVars, speciesVars, ifaceVars>>

----------------------------------------------------------------------------
(* Helpers on arrays *)

Min2(a, b) == IF a < b THEN a ELSE b
Max2(a, b) == IF a > b THEN a ELSE b

\* Python's s[a:b] for 0 <= a, with b clamped to the length
Slice(s, a, b) == SubSeq(s, a + 1, Min2(b, Len(s)))

\* Python's s[i] for a 0-based i
At(s, i) == s[i + 1]

\* Python's s[i] = v
SetAt(s, i, v) == [s EXCEPT ![i + 1] = v]

\* Python's s[::-1]
RECURSIVE Reversed(_)
Reversed(s) == IF s = <<>> THEN <<>> ELSE Append(Reversed(Tail(s)), Head(s))

Range(s) == {s[i] : i \in DOMAIN s}

\* numpy's a[lo:lo+Len(seg)] = seg
Splice(s, lo, seg) ==
    [i \in DOMAIN s |->
        IF i - 1 >= lo /\ i - 1 < lo + Len(seg) THEN seg[i - lo] ELSE s[i]]

----------------------------------------------------------------------------
(* Permutation individuals: individual/permutation/base.py *)

\* the size of the permutation of an individual (options.individual_size)
PermSize == 4

\* MultiPointCrosser._num_points, fixed to 2 by PermuCrosserPMX.__init__
NumPoints == 2

\* MultiPointCrosser._num_cross
NumCross == 1

Perms == {p \in [1..PermSize -> 0..(PermSize - 1)] : Range(p) = 0..(PermSize - 1)}

\* s without its position i
RemoveAt(s, i) == SubSeq(s, 1, i - 1) \o SubSeq(s, i + 1, Len(s))

\* the arrangements of the elements of a segment (np.random.permutation)
RECURSIVE Shuffles(_)
Shuffles(seg) ==
    IF seg = <<>> THEN {<<>>}
    ELSE UNION {{<<seg[i]>> \o r : r \in Shuffles(RemoveAt(seg, i))} : i \in DOMAIN seg}

\* _assert_is_perm: np.sort(permutation) equals arange(size)
IsPerm(p) ==
    /\ Len(p) = PermSize
    /\ \A v \in 0..(PermSize - 1) : Cardinality({i \in DOMAIN p : p[i] = v}) = 1

swap(p, idx1, idx2) ==
    [p EXCEPT ![idx1 + 1] = p[idx2 + 1], ![idx2 + 1] = p[idx1 + 1]]

move_element(p, idx, new_pos) ==
    IF idx = new_pos THEN p
    ELSE
        LET new_elt == At(p, idx)
            shifted ==
                IF idx < new_pos
                THEN IF new_pos >= PermSize
                     THEN SetAt(Splice(p, idx, Slice(p, idx + 1, PermSize)),
                                PermSize - 1, At(p, 0))
                     ELSE Splice(p, idx, Slice(p, idx + 1, new_pos + 1))
                ELSE IF new_pos = 0
                     THEN LET q == Splice(p, 1, Slice(p, 0, idx))
                          IN  SetAt(q, 0, At(q, PermSize - 1))
                     ELSE Splice(p, new_pos, Slice(p, new_pos - 1, idx))
        IN  SetAt(shifted, new_pos, new_elt)

move_elements(p, idx, dec0, length, reverse) ==
    LET dec == (dec0 % (PermSize - length - 1)) + 1
    IN  IF length = 0 \/ dec = 0 THEN p
        ELSE
            LET dec_idx_l == Max2(0, idx + length - PermSize)
                permutation_less ==
                    Slice(p, idx + length - dec_idx_l, PermSize) \o Slice(p, dec_idx_l, idx)
                removed0 ==
                    Slice(p, idx, idx + length - dec_idx_l) \o Slice(p, 0, dec_idx_l)
                permutation_removed == IF reverse THEN Reversed(removed0) ELSE removed0
            IN  Slice(permutation_less, 0, dec) \o permutation_removed
                    \o Slice(permutation_less, dec, Len(permutation_less))

reverse(p, idx1, idx2) ==
    Splice(p, idx1, Reversed(Slice(p, idx1, idx2 + 1)))

\* the arrays shuffle(idx1, idx2) can leave
shuffle(p, idx1, idx2) ==
    {Splice(p, idx1, q) : q \in Shuffles(Slice(p, idx1, idx2 + 1))}

\* np.random.randint(0, size - 1): the indices the mutator and the crosser draw
DrawIdx == 0..(PermSize - 2)

----------------------------------------------------------------------------
(* PMX crossover: crosser/permutation/pmx.py, crosser/multi_point.py *)

\* indices[permutation] = arange(len(permutation))
IndexMap(p) == [v \in 0..(PermSize - 1) |-> (CHOOSE i \in DOMAIN p : p[i] = v) - 1]

\* the loop of _cross_points from counter i (before the modulo) to last
RECURSIVE PmxLoop(_, _, _, _, _)
PmxLoop(p, ind2, indices, i, last) ==
    IF i > last THEN p
    ELSE
        LET j == i % Len(p)
            q == IF At(p, j) # At(ind2, j)
                 THEN swap(p, j, indices[At(ind2, j)])
                 ELSE p
        IN  PmxLoop(q, ind2, indices, i + 1, last)

Abs(x) == IF x < 0 THEN -x ELSE x

\* a crossover that copies the second parent's values over the span
RECURSIVE CopyLoop(_, _, _, _)
CopyLoop(p, ind2, i, last) ==
    IF i > last THEN p
    ELSE CopyLoop(SetAt(p, i % Len(p), At(ind2, i % Len(p))), ind2, i + 1, last)

cross_points_copying(p, ind2, idx1, idx2) ==
    CopyLoop(p, ind2, idx1, idx1 + Abs(idx2 - idx1))

_cross_points(p, ind2, idx1, idx2) ==
    PmxLoop(p, ind2, IndexMap(p), idx1, idx1 + Abs(idx2 - idx1))

\* np.sort(np.random.randint(0, len(ind1) - 1, num_points * num_cross))
CutIdxs ==
    {s \in [1..(NumPoints * NumCross) -> DrawIdx] :
        \A i \in 1..(NumPoints * NumCross - 1) : s[i] <= s[i + 1]}

\* MultiPointCrosser._cross: the cut pairs applied one after the other
RECURSIVE CrossFrom(_, _, _, _)
CrossFrom(data, ind2, idxs, i) ==
    IF i >= NumCross THEN data
    ELSE CrossFrom(_cross_points(data, ind2, idxs[i * NumPoints + 1], idxs[i * NumPoints + 2]),
                   ind2, idxs, i + 1)

MultiPointCross(ind1, ind2, idxs) == CrossFrom(ind1, ind2, idxs, 0)

\* np.random.permutation(size) for the individual followed and for the other one
InitPermGroup ==
    /\ permutation \in Perms
    /\ mate \in Perms
    /\ lastOp = "none"

IdlePerm ==
    /\ permutation = <<>>
    /\ mate = <<>>
    /\ lastOp = "none"

\* the (min, max) pairs made of two indices drawn by the mutator
DrawPairs == {<<Min2(a, b), Max2(a, b)>> : a \in DrawIdx, b \in DrawIdx}

\* the (idx, dec, length, reverse) draws of _mutate_multi
MultiDraws ==
    {b \in DrawIdx \X (1..(PermSize - 2)) \X (1..(PermSize - 3)) \X BOOLEAN :
        b[2] <= PermSize - b[3] - 2}

\* PermuMutator._mutate_multi
MutateMulti ==
    \E q \in {move_elements(permutation, a[1], a[2], a[3], a[4]) : a \in MultiDraws} :
        /\ permutation' = q
        /\ lastOp' = "mutation"
        /\ UNCHANGED mate

\* PermuMutator._mutate_single
MutateSingle ==
    \E q \in {move_element(permutation, idx, new_pos) : idx \in DrawIdx, new_pos \in DrawIdx} :
        /\ permutation' = q
        /\ lastOp' = "mutation"
        /\ UNCHANGED mate

\* PermuMutator._mutate_reverse
MutateReverse ==
    \E q \in {reverse(permutation, pr[1], pr[2]) : pr \in DrawPairs} :
        /\ permutation' = q
        /\ lastOp' = "mutation"
        /\ UNCHANGED mate

\* PermuMutator._mutate_shuffle
MutateShuffle ==
    \E q \in UNION {shuffle(permutation, pr[1], pr[2]) : pr \in DrawPairs} :
        /\ permutation' = q
        /\ lastOp' = "mutation"
        /\ UNCHANGED mate

\* PermuMutator._mutate_swap
MutateSwap ==
    \E q \in {swap(permutation, idx1, idx2) : idx1 \in DrawIdx, idx2 \in DrawIdx} :
        /\ permutation' = q
        /\ lastOp' = "mutation"
        /\ UNCHANGED mate

\* BaseCrosser.cross for one first parent: the second parent is drawn with
\* population.get_random (it may be the first parent itself), the offspring is
\* built from a copy of the first parent's array (get_data) and is the
\* individual followed from then on
CrossPMX ==
    \E ind1 \in {permutation, mate}, ind2 \in {permutation, mate} :
        \E child \in {MultiPointCross(ind1, ind2, idxs) : idxs \in CutIdxs} :
            /\ permutation' = child
            /\ lastOp' = "pmx"
            /\ UNCHANGED mate

----------------------------------------------------------------------------
(* Innovation tracker: utils/innovation.py *)

\* the counters are followed up to this value
MaxCounter == 2

\* the node ids used as keys of the tracker
NodeKeys == {0, 1}

NoCall == [op |-> "none"]

\* InnovationTracker.reset
InitTrkGroup ==
    /\ connection_ids = <<>>
    /\ split_node_ids = <<>>
    /\ next_node_id = 0
    /\ next_connection_id = 0

Put(map, key, val) == [k \in DOMAIN map \cup {key} |-> IF k = key THEN val ELSE map[k]]

\* a getter that gives a new id at every call
TrackerGetAlwaysNew(map, counter, key) ==
    [map |-> Put(map, key, counter), counter |-> counter + 1, id |-> counter]

\* the map and the counter get_connection_id / get_split_node_id leave, and the
\* id they return
TrackerGet(map, counter, key) ==
    IF key \notin DOMAIN map
    THEN [map |-> Put(map, key, counter), counter |-> counter + 1, id |-> counter]
    ELSE [map |-> map, counter |-> counter, id |-> map[key]]

\* _normalize_key
NormalizeKey(in_node_id, out_node_id) == <<in_node_id, out_node_id>>

get_connection_id(in_node_id, out_node_id) ==
    LET key == NormalizeKey(in_node_id, out_node_id)
        r == TrackerGet(connection_ids, next_connection_id, key)
    IN  /\ r.counter <= MaxCounter
        /\ connection_ids' = r.map
        /\ next_connection_id' = r.counter
        /\ lastCall' = [op |-> "connection", key |-> key, id |-> r.id,
                        hit |-> key \in DOMAIN connection_ids]
        /\ UNCHANGED <<split_node_ids, next_node_id>>

get_split_node_id(in_node_id, out_node_id) ==
    LET key == NormalizeKey(in_node_id, out_node_id)
        r == TrackerGet(split_node_ids, next_node_id, key)
    IN  /\ r.counter <= MaxCounter
        /\ split_node_ids' = r.map
        /\ next_node_id' = r.counter
        /\ lastCall' = [op |-> "split", key |-> key, id |-> r.id,
                        hit |-> key \in DOMAIN split_node_ids]
        /\ UNCHANGED <<connection_ids, next_connection_id>>

sync_node_counter(n) ==
    /\ next_node_id' = Max2(next_node_id, n)
    /\ lastCall' = NoCall
    /\ UNCHANGED <<connection_ids, split_node_ids, next_connection_id>>

sync_connection_counter(n) ==
    /\ next_connection_id' = Max2(next_connection_id, n)
    /\ lastCall' = NoCall
    /\ UNCHANGED <<connection_ids, split_node_ids, next_node_id>>

----------------------------------------------------------------------------
(* Individuals: individual/base.py *)

\* the largest value BaseIndividual._id_counter takes in a run followed here
MaxId == 5

\* options.invalid_fit_value
InvalidFitValue == 0

\* the genomes an individual can have; a genome stands for the data of an
\* individual, and the evaluation function depends on the genome only
Genomes == 0..2

\* BaseIndividual.__init__ after set_new_id() took the id from the counter,
\* with the genome the subclass drew
NewInd(new_id, genome) ==
    [id |-> new_id, g |-> genome, ev |-> FALSE, fit |-> 0, err |-> ""]

is_valid(ind) == ind.ev /\ (IF ind.ev THEN ind.err ELSE "None") = ""

fitness(ind) == IF is_valid(ind) THEN ind.fit ELSE InvalidFitValue

register_evaluation(ind, fit, err_eval) ==
    [ind EXCEPT !.ev = TRUE, !.fit = fit, !.err = err_eval]

\* has_mutate: a new id from the counter, not evaluated any more; the last
\* evaluation tuple stays in place
has_mutate(ind, new_id) == [ind EXCEPT !.id = new_id, !.ev = FALSE]

\* from_data: cls(options) takes an id from the counter, then
\* "if set_id := -1" binds -1 and gives the individual the id -1
from_data(genome) == NewInd(-1, genome)

\* copy: from_data followed by transfer_eval_data
copy(ind) == [from_data(ind.g) EXCEPT !.ev = ind.ev, !.fit = ind.fit, !.err = ind.err]

\* the evaluation function of the run: a function of the genome only, that
\* raises on the genome 0 and returns the genome otherwise. The option
\* evaluation_func tells what it raises: "ignore" an IgnoreException with a
\* message, "ignore_empty" an IgnoreException with the message "", "error"
\* an exception of another type
EvalRaises(genome) == genome = 0
EvalFunc(genome) == genome

\* str(exception) of the IgnoreException raised
EvalMessage(opts) == IF opts.evaluation_func = "ignore_empty" THEN "" ELSE "ignored"

\* the evaluation of the individual raises an exception that the except
\* clause of _evaluate_pop does not name
Uncaught(ind, opts) ==
    ~ind.ev /\ EvalRaises(ind.g) /\ opts.evaluation_func = "error"

\* SingleEvaluator._evaluate_pop on one individual whose evaluation returns
\* or raises IgnoreException
EvaluateInd(ind, opts) ==
    IF ind.ev THEN ind
    ELSE IF EvalRaises(ind.g) THEN register_evaluation(ind, 0, EvalMessage(opts))
    ELSE register_evaluation(ind, EvalFunc(ind.g), "")

----------------------------------------------------------------------------
(* Population: population/base.py *)

fitness_values(sample) == [i \in DOMAIN sample |-> fitness(sample[i])]

\* a ranking that puts the worst score first
argsort_scores_worst_first(scores, ascending_order) ==
    LET c(i) == IF ascending_order THEN -scores[i] ELSE scores[i]
        Before(j, i) == c(j) < c(i) \/ (c(j) = c(i) /\ j < i)
        rank(i) == Cardinality({j \in DOMAIN scores : Before(j, i)})
    IN  [k \in DOMAIN scores |-> CHOOSE i \in DOMAIN scores : rank(i) = k - 1]

\* np.argsort of the scores (of their negation when the order is descending);
\* numpy sorts arrays this short by insertion, so equal scores keep their order.
\* The result holds positions 1..n.
argsort_scores(scores, ascending_order) ==
    LET c(i) == IF ascending_order THEN scores[i] ELSE -scores[i]
        Before(j, i) == c(j) < c(i) \/ (c(j) = c(i) /\ j < i)
        rank(i) == Cardinality({j \in DOMAIN scores : Before(j, i)})
    IN  [k \in DOMAIN scores |-> CHOOSE i \in DOMAIN scores : rank(i) = k - 1]

sort_sample(sample, ascending_order) ==
    LET sorted_idx == argsort_scores(fitness_values(sample), ascending_order)
    IN  [k \in DOMAIN sample |-> sample[sorted_idx[k]]]

\* np.searchsorted(a, v), side left: the binary search numpy runs between the
\* 0-based bounds lo and hi, whatever the order of a
RECURSIVE BinSearchLeft(_, _, _, _)
BinSearchLeft(a, v, lo, hi) ==
    IF lo >= hi THEN lo
    ELSE LET mid == lo + ((hi - lo) \div 2)
         IN  IF At(a, mid) < v THEN BinSearchLeft(a, v, mid + 1, hi)
             ELSE BinSearchLeft(a, v, lo, mid)

searchsorted(a, v) == BinSearchLeft(a, v, 0, Len(a))

_rank_of_fitness(pop, ascending_order, fit) ==
    IF ascending_order THEN searchsorted(fitness_values(pop), fit)
    ELSE Len(pop) - searchsorted(Reversed(fitness_values(pop)), fit) - 1

\* Python's list.insert(idx, x): a negative idx counts from the end, and the
\* result is clamped to the list
ListInsert(s, idx, x) ==
    LET i0 == IF idx < 0 THEN Max2(idx + Len(s), 0) ELSE Min2(idx, Len(s))
    IN  SubSeq(s, 1, i0) \o <<x>> \o SubSeq(s, i0 + 1, Len(s))

\* add_individual as a function of the population state [pop, sorted]
add_individual(st, opts, individual) ==
    IF is_valid(individual) /\ opts.keep_sorted
    THEN IF st.sorted
         THEN [pop |-> ListInsert(st.pop,
                           _rank_of_fitness(st.pop, opts.ascending_order,
                                            fitness(individual)),
                           individual),
               sorted |-> TRUE]
         ELSE [pop |-> sort_sample(Append(st.pop, individual), opts.ascending_order),
               sorted |-> TRUE]
    ELSE [pop |-> Append(st.pop, individual), sorted |-> FALSE]

update_order(st, opts) ==
    IF opts.keep_sorted
    THEN [pop |-> sort_sample(st.pop, opts.ascending_order), sorted |-> TRUE]
    ELSE st

\* n calls of add_individual(create(options)), the genomes drawn being gs and
\* the ids taken from first_id on
RECURSIVE AddCreated(_, _, _, _)
AddCreated(st, opts, gs, first_id) ==
    IF gs = <<>> THEN st
    ELSE AddCreated(add_individual(st, opts, NewInd(first_id, Head(gs))),
                    opts, Tail(gs), first_id + 1)

\* Python's min(sample, key) or max(sample, key): the first extreme element
FirstExtreme(sample, ascending_order) ==
    LET better(a, b) == IF ascending_order THEN a < b ELSE a > b
        i == CHOOSE i \in DOMAIN sample :
                /\ \A j \in DOMAIN sample :
                       ~better(fitness(sample[j]), fitness(sample[i]))
                /\ \A j \in 1..(i - 1) :
                       fitness(sample[j]) # fitness(sample[i])
    IN  sample[i]

\* get_best_ind() of the population: [raised, ind]; an empty population raises
\* IndexError or ValueError, an invalid extreme raises ValueError
get_best_ind(pop, is_sorted, ascending_order) ==
    IF pop = <<>> THEN [raised |-> TRUE]
    ELSE IF is_sorted THEN [raised |-> FALSE, ind |-> pop[1]]
    ELSE LET top == FirstExtreme(pop, ascending_order)
         IN  IF ~is_valid(top) THEN [raised |-> TRUE]
             ELSE [raised |-> FALSE, ind |-> top]

\* get_best_ind(sample) of a sample
get_best_of_sample(sample, ascending_order) ==
    IF sample = <<>> THEN [raised |-> TRUE]
    ELSE LET top == FirstExtreme(sample, ascending_order)
         IN  IF ~is_valid(top) THEN [raised |-> TRUE]
             ELSE [raised |-> FALSE, ind |-> top]

\* get_worst_ind() of the population: a sorted population is read from its end
\* up to the first valid individual; when it has none, or is not sorted, the
\* worst extreme of the list is taken and raises ValueError when invalid
get_worst_ind(pop, is_sorted, ascending_order) ==
    LET valid == {i \in DOMAIN pop : is_valid(pop[i])}
    IN  IF is_sorted /\ valid # {}
        THEN [raised |-> FALSE,
              ind |-> pop[CHOOSE i \in valid : \A j \in valid : j <= i]]
        ELSE IF pop = <<>> THEN [raised |-> TRUE]
        ELSE LET worst == FirstExtreme(pop, ~ascending_order)
             IN  IF ~is_valid(worst) THEN [raised |-> TRUE]
                 ELSE [raised |-> FALSE, ind |-> worst]

\* get_worst_ind(sample) of a sample
get_worst_of_sample(sample, ascending_order) ==
    get_worst_ind(sample, FALSE, ascending_order)

\* exist_valid(sample): the fitness of an invalid individual is
\* invalid_fit_value, which is a number, so no fitness is NaN
exist_valid(sample) == ~(\A i \in DOMAIN sample : FALSE)

\* the options of a run: the defaults, with the sizes and the numbers of
\* generations and of tries scaled down, and the rates in tenths
DefaultOptions ==
    [max_gen |-> 2, timeout |-> 1000,
     ascending_order |-> TRUE, keep_sorted |-> TRUE,
     size_population |-> 2, complete_population |-> TRUE,
     immigration_rate |-> 2,
     selection_ratio |-> 3, allow_invalid |-> FALSE, allow_copies |-> TRUE,
     limit_size |-> TRUE, keep_best |-> TRUE,
     max_single_select_fail |-> 1, selector |-> "tournament",
     tournament_size |-> 2,
     elite_size |-> 1,
     evaluation_func |-> "ignore",
     activations |-> [evaluator |-> TRUE, selector |-> TRUE, migration |-> TRUE, crosser |-> TRUE,
                      mutator |-> TRUE, elite |-> TRUE]]

\* sequences of n genomes, the draws of n calls of create()
GenomeSeqs(n) == [1..n -> Genomes]

\* BasePopulation.__init__ and _init_population: size_population created
\* individuals, none evaluated, the flag down
InitPopGroup(Opts) ==
    /\ options \in Opts
    /\ \E gs \in GenomeSeqs(options.size_population) :
           population = [i \in 1..options.size_population |-> NewInd(i - 1, gs[i])]
    /\ sorted = FALSE
    /\ immigrated = 0
    /\ id_counter = options.size_population
    /\ popOp = "init"

IdlePop ==
    /\ options = DefaultOptions
    /\ population = <<>>
    /\ sorted = FALSE
    /\ immigrated = 0
    /\ id_counter = 0
    /\ popOp = "none"

PopState == [pop |-> population, sorted |-> sorted]

\* add_individual(individual) for an individual created by the caller, which
\* may have had it evaluated before
AddIndividual ==
    /\ Len(population) <= options.size_population
    /\ id_counter < MaxId
    /\ \E genome \in Genomes, evaluated \in BOOLEAN :
           LET created == NewInd(id_counter, genome)
               individual == IF evaluated /\ ~Uncaught(created, options)
                             THEN EvaluateInd(created, options) ELSE created
               st == add_individual(PopState, options, individual)
           IN  /\ population' = st.pop
               /\ sorted' = st.sorted
    /\ id_counter' = id_counter + 1
    /\ popOp' = "add_individual"
    /\ UNCHANGED <<options, immigrated>>

\* sort()
Sort ==
    /\ population' = sort_sample(population, options.ascending_order)
    /\ sorted' = TRUE
    /\ popOp' = "sort"
    /\ UNCHANGED <<options, immigrated, id_counter>>

\* the sub-lists of a list, in the order of the list
RECURSIVE Pick(_, _, _)
Pick(s, keep, i) ==
    IF i > Len(s) THEN <<>>
    ELSE (IF i \in keep THEN <<s[i]>> ELSE <<>>) \o Pick(s, keep, i + 1)

\* update(selection): the selection replaces the population, which is sorted
PopUpdate(selection) ==
    /\ population' = sort_sample(selection, options.ascending_order)
    /\ sorted' = TRUE

Update ==
    /\ \E keep \in SUBSET (DOMAIN population) :
           PopUpdate(Pick(population, keep, 1))
    /\ popOp' = "update"
    /\ UNCHANGED <<options, immigrated, id_counter>>

\* migrate(): int(size * immigration_rate) created individuals are added
Migrate ==
    LET n == (Len(population) * options.immigration_rate) \div 10
    IN  /\ id_counter + n <= MaxId
        /\ immigrated' = n
        /\ IF n > 0
           THEN \E gs \in GenomeSeqs(n) :
                    LET st == update_order(
                                  AddCreated([pop |-> population, sorted |-> FALSE],
                                             options, gs, id_counter),
                                  options)
                    IN  /\ population' = st.pop
                        /\ sorted' = st.sorted
           ELSE UNCHANGED <<population, sorted>>
        /\ id_counter' = id_counter + n
        /\ popOp' = "migrate"
        /\ UNCHANGED options

\* init_evaluation as a function of the population state, gs being the genomes
\* of the individuals that fill the population
init_evaluation(st, opts, gs, first_id) ==
    IF opts.complete_population /\ opts.size_population > Len(st.pop)
    THEN update_order(AddCreated([pop |-> st.pop, sorted |-> FALSE],
                                 opts, gs, first_id), opts)
    ELSE st

\* the number of individuals init_evaluation creates
Missing(pop, opts) ==
    IF opts.complete_population /\ opts.size_population > Len(pop)
    THEN opts.size_population - Len(pop) ELSE 0

\* SingleEvaluator._evaluate_pop: the individuals are evaluated in the order
\* of the list; an exception that is not an IgnoreException leaves the loop
\* and the method, with the individuals before it evaluated and neither the
\* others nor the order updated
_evaluate_pop(st, opts) ==
    LET failing == {i \in DOMAIN st.pop : Uncaught(st.pop[i], opts)}
    IN  IF failing = {}
        THEN LET u == update_order(
                          [pop |-> [i \in DOMAIN st.pop |-> EvaluateInd(st.pop[i], opts)],
                           sorted |-> st.sorted], opts)
             IN  [pop |-> u.pop, sorted |-> u.sorted, raised |-> FALSE]
        ELSE LET k == CHOOSE i \in failing : \A j \in failing : i <= j
             IN  [pop |-> [i \in DOMAIN st.pop |->
                              IF i < k THEN EvaluateInd(st.pop[i], opts) ELSE st.pop[i]],
                  sorted |-> st.sorted, raised |-> TRUE]

\* BaseEvaluator.evaluate(population)
Evaluate ==
    LET n == Missing(population, options)
    IN  /\ id_counter + n <= MaxId
        /\ \E gs \in GenomeSeqs(n) :
               LET st == _evaluate_pop(
                             init_evaluation(PopState, options, gs, id_counter),
                             options)
               IN  /\ population' = st.pop
                   /\ sorted' = st.sorted
                   /\ popOp' = IF st.raised THEN "evaluate_raised" ELSE "evaluate"
        /\ id_counter' = id_counter + n
        /\ UNCHANGED <<options, immigrated>>

\* BaseMutator.mutate(population): the individuals of the set hit are mutated
\* in place, each to a genome drawn, and take a new id in the order of the list
RECURSIVE MutateFrom(_, _, _, _, _)
MutateFrom(pop, hit, gs, i, next_id) ==
    IF i > Len(pop) THEN pop
    ELSE IF i \in hit
         THEN MutateFrom([pop EXCEPT ![i] = has_mutate([@ EXCEPT !.g = gs[i]], next_id)],
                         hit, gs, i + 1, next_id + 1)
         ELSE MutateFrom(pop, hit, gs, i + 1, next_id)

Mutate ==
    /\ \E hit \in SUBSET (DOMAIN population) :
           /\ id_counter + Cardinality(hit) <= MaxId
           /\ \E gs \in GenomeSeqs(Len(population)) :
                  /\ \A i \in DOMAIN population : i \notin hit => gs[i] = population[i].g
                  /\ population' = MutateFrom(population, hit, gs, 1, id_counter)
           /\ sorted' = IF hit = {} THEN sorted ELSE FALSE
           /\ id_counter' = id_counter + Cardinality(hit)
    /\ popOp' = "mutate"
    /\ UNCHANGED <<options, immigrated>>

\* the samples a caller can pass: NoSample for sample=None, or the individuals
\* of the population at the positions kept, in the order of the list
NoSample == <<[id |-> -2]>>
Samples == {NoSample} \cup {Pick(population, keep, 1) : keep \in SUBSET (DOMAIN population)}

\* get_best_ind(sample) with allow_invalid=False, the call and its outcome noted
GetBestInd ==
    /\ \E sample \in Samples :
           lastCall' = [op |-> "get_best_ind",
                        seen |-> IF sample = NoSample THEN population ELSE sample,
                        out |-> IF sample = NoSample
                                THEN get_best_ind(population, sorted, options.ascending_order)
                                ELSE get_best_of_sample(sample, options.ascending_order)]
    /\ UNCHANGED popVars

\* get_worst_ind(sample) with allow_invalid=False
GetWorstInd ==
    /\ \E sample \in Samples :
           lastCall' = [op |-> "get_worst_ind",
                        seen |-> IF sample = NoSample THEN population ELSE sample,
                        out |-> IF sample = NoSample
                                THEN get_worst_ind(population, sorted, options.ascending_order)
                                ELSE get_worst_of_sample(sample, options.ascending_order)]
    /\ UNCHANGED popVars

----------------------------------------------------------------------------
(* Elite: elite/base.py *)

InitEliteGroup ==
    /\ elite = <<>>
    /\ elite_scores = <<>>

\* a cut that keeps every entry
PrefixAll(s, n) == s

\* Python's s[:n], the first n entries of a list
Prefix(s, n) == SubSeq(s, 1, Min2(n, Len(s)))

\* the entries of the new elite that are copies of population individuals
EliteCopies(sorted_idx, size) == {k \in DOMAIN sorted_idx : sorted_idx[k] <= size}

\* update(population): the population is sorted, its scores and the scores of
\* the elite are ranked together and the first elite_size entries are kept
EliteUpdate ==
    LET pop == sort_sample(population, options.ascending_order)
        outsiders_scores == fitness_values(pop)
        complete_scores == outsiders_scores \o elite_scores
        sorted_idx == Prefix(argsort_scores(complete_scores, options.ascending_order),
                             options.elite_size)
        copies == Cardinality(EliteCopies(sorted_idx, Len(pop)))
    IN  /\ id_counter + copies <= MaxId
        /\ population' = pop
        /\ sorted' = TRUE
        /\ elite' = [k \in DOMAIN sorted_idx |->
                        IF sorted_idx[k] <= Len(pop)
                        THEN copy(pop[sorted_idx[k]])
                        ELSE elite[sorted_idx[k] - Len(pop)]]
        /\ elite_scores' = [k \in DOMAIN sorted_idx |-> complete_scores[sorted_idx[k]]]
        /\ id_counter' = id_counter + copies
        /\ popOp' = "elite_update"
        /\ UNCHANGED <<options, immigrated>>
----------------------------------------------------------------------------
(* Selector: selector/base.py, selector/tournament.py, selector/wheel.py *)

NoInd == [id |-> -2]

\* BaseSelector.__init__, and no selection running
InitSelGroup ==
    /\ selPc = "idle"
    /\ n_selected = 0
    /\ sel_idx = 0
    /\ n_test = 0
    /\ selected = <<>>
    /\ pre_selected_set = {}
    /\ warnings = 0
    /\ draws = 0
    /\ bestBefore = NoInd
    /\ unlimited_warning = FALSE

\* math.ceil of a number of tenths
CeilTenths(x) == (x + 9) \div 10

_compute_selection_set(opts) == ~opts.allow_invalid \/ opts.keep_best

\* select(population) up to the first slot of single_selection:
\* _get_selection computes n_selected, _valid_init logs a warning when the
\* fails are unlimited and _init_selection clears the set of ids when copies
\* are not allowed; the wheel is built from the population, which raises
\* IndexError when the population is empty
SelStart ==
    /\ selPc \in {"idle", "done"}
    /\ n_selected' = IF options.limit_size
                     THEN CeilTenths(options.selection_ratio * options.size_population)
                     ELSE CeilTenths(options.selection_ratio * Len(population))
    /\ pre_selected_set' = IF options.allow_copies THEN pre_selected_set ELSE {}
    /\ selPc' = IF options.selector = "wheel" /\ population = <<>>
                THEN "raised_init" ELSE "loop"
    /\ sel_idx' = 0
    /\ n_test' = 0
    /\ selected' = <<>>
    /\ warnings' = 0
    /\ draws' = 0
    /\ bestBefore' = LET b == get_best_ind(population, sorted, options.ascending_order)
                     IN  IF b.raised THEN NoInd ELSE b.ind
    /\ unlimited_warning' = (options.max_single_select_fail = -1)
    /\ UNCHANGED popVars

\* the samples get_random(n=tournament_size) can return: rd.choices draws
\* with replacement
Competitors(pop, k) == {[i \in 1..k |-> pop[c[i]]] : c \in [1..k -> DOMAIN pop]}

\* TournamentSelector.single_select for the competitors drawn: [raised, ind].
\* Without competitors the winner is get_random(n=1)[0], passed as fallback.
tournament_select(competitors, fallback, ascending_order) ==
    IF exist_valid(competitors)
    THEN get_best_of_sample(competitors, ascending_order)
    ELSE [raised |-> FALSE, ind |-> fallback]

\* a tournament whose competitors are drawn without replacement, which is
\* not possible for more competitors than individuals
CandidatesWithoutReplacement(pop, opts) ==
    IF opts.selector = "wheel"
    THEN {[raised |-> FALSE, ind |-> pop[i]] : i \in DOMAIN pop}
    ELSE IF pop = <<>> \/ opts.tournament_size > Len(pop) THEN {[raised |-> TRUE]}
    ELSE {tournament_select(c, pop[i], opts.ascending_order) :
              c \in {d \in Competitors(pop, opts.tournament_size) :
                        \A a \in DOMAIN d, b \in DOMAIN d : d[a] = d[b] => a = b},
              i \in DOMAIN pop}

\* the candidates single_select can return for the population
Candidates(pop, opts) ==
    IF opts.selector = "wheel"
    THEN {[raised |-> FALSE, ind |-> pop[i]] : i \in DOMAIN pop}
    ELSE IF pop = <<>> THEN {[raised |-> TRUE]}
    ELSE {tournament_select(c, pop[i], opts.ascending_order) :
              c \in Competitors(pop, opts.tournament_size), i \in DOMAIN pop}

\* _valid_single_selection without its update of the set
valid_single_selection(ind, opts, pre_set) ==
    /\ opts.allow_invalid \/ is_valid(ind)
    /\ opts.allow_copies \/ ind.id \notin pre_set

\* one pass of the while loop of single_selection for the slot sel_idx
SelDraw ==
    /\ selPc = "loop"
    /\ sel_idx < n_selected
    /\ n_test < options.max_single_select_fail
    /\ options.max_single_select_fail # -1
    /\ draws' = draws + 1
    /\ \E cand \in Candidates(population, options) :
           IF cand.raised
           THEN /\ selPc' = "raised_select"
                /\ n_test' = n_test + 1
                /\ UNCHANGED <<sel_idx, selected, pre_selected_set, warnings, id_counter>>
           ELSE IF valid_single_selection(cand.ind, options, pre_selected_set)
           THEN /\ IF options.allow_copies
                   THEN /\ id_counter < MaxId
                        /\ selected' = Append(selected, copy(cand.ind))
                        /\ id_counter' = id_counter + 1
                        /\ UNCHANGED pre_selected_set
                   ELSE /\ selected' = Append(selected, cand.ind)
                        /\ pre_selected_set' = pre_selected_set \cup {cand.ind.id}
                        /\ UNCHANGED id_counter
                /\ sel_idx' = sel_idx + 1
                /\ n_test' = 0
                /\ UNCHANGED <<selPc, warnings>>
           ELSE IF n_test + 1 < options.max_single_select_fail
           THEN /\ n_test' = n_test + 1
                /\ UNCHANGED <<selPc, sel_idx, selected, pre_selected_set,
                               warnings, id_counter>>
           ELSE /\ warnings' = warnings + 1
                /\ sel_idx' = sel_idx + 1
                /\ n_test' = 0
                /\ UNCHANGED <<selPc, selected, pre_selected_set, id_counter>>
    /\ UNCHANGED <<options, population, sorted, immigrated, popOp, n_selected,
                   bestBefore, unlimited_warning>>

\* a slot of single_selection for which the condition of the while loop is
\* false at the first test: no call of single_select, the else branch of the
\* loop logs the warning and the for loop goes to the next slot
SelGiveUp ==
    /\ selPc = "loop"
    /\ sel_idx < n_selected
    /\ ~(n_test < options.max_single_select_fail
            /\ options.max_single_select_fail # -1)
    /\ warnings' = warnings + 1
    /\ sel_idx' = sel_idx + 1
    /\ n_test' = 0
    /\ UNCHANGED <<popVars, selPc, n_selected, selected, pre_selected_set, draws,
                   bestBefore, unlimited_warning>>

_is_best_included(best, pre_selected, opts, pre_set) ==
    IF _compute_selection_set(opts) THEN best.id \in pre_set
    ELSE \E i \in DOMAIN pre_selected : pre_selected[i].id = best.id

\* best_preservation: the list the caller holds afterwards. When the list is
\* full and the size is limited, "selected = selected[:-1]" binds a new list
\* to the local name and the best is appended to that one.
best_preservation(sel, best, n, opts, pre_set) ==
    IF _is_best_included(best, sel, opts, pre_set) THEN sel
    ELSE IF Len(sel) = n /\ opts.limit_size THEN sel
         ELSE Append(sel, best)

\* the end of select(population): single_selection has returned,
\* best_preservation runs when keep_best is set, and population.update
\* takes the list
SelFinish ==
    /\ selPc = "loop"
    /\ sel_idx = n_selected
    /\ LET b == get_best_ind(population, sorted, options.ascending_order)
       IN  IF options.keep_best /\ b.raised
           THEN /\ selPc' = "raised_best"
                /\ UNCHANGED <<population, sorted, popOp, selected>>
           ELSE /\ selected' = IF options.keep_best
                               THEN best_preservation(selected, b.ind, n_selected,
                                                      options, pre_selected_set)
                               ELSE selected
                /\ PopUpdate(selected')
                /\ popOp' = "select"
                /\ selPc' = "done"
    /\ UNCHANGED <<options, immigrated, id_counter, n_selected, sel_idx, n_test,
                   pre_selected_set, warnings, draws, bestBefore, unlimited_warning>>
----------------------------------------------------------------------------
(* Crosser: crosser/base.py *)

\* "self._crossed = 0" opens cross(): the count is the one of this call
CrossedSoFar == IF cross_idx = 0 THEN 0 ELSE _crossed

\* one pass of the loop "for ind1 in population" of cross(population), at the
\* position cross_idx of the list, which grows while the loop runs: either
\* the draw is not below cross_prob, or a mate is drawn with get_random and
\* the data _cross returns are added with add_individual_from_data
CrossStep ==
    /\ cross_idx < Len(population)
    /\ \/ /\ _crossed' = CrossedSoFar
          /\ UNCHANGED <<population, sorted, id_counter>>
       \/ /\ id_counter < MaxId
          /\ _crossed' = CrossedSoFar + 1
          /\ \E ind2 \in Range(population), genome \in Genomes :
                 LET st == add_individual(PopState, options, from_data(genome))
                 IN  /\ population' = st.pop
                     /\ sorted' = st.sorted
          /\ id_counter' = id_counter + 1
    /\ cross_idx' = cross_idx + 1
    /\ popOp' = "cross"
    /\ UNCHANGED <<options, immigrated>>

----------------------------------------------------------------------------
(* Environment: environment/base.py *)

\* the values of "n_gen" an evolution record can hold: the record is written by
\* end_evolution, after 0 to max_gen generations
RecordedGens == 0 .. DefaultOptions.max_gen

\* the most generations followed, over every call of evolve()
MaxGenerations == 2 * DefaultOptions.max_gen

\* BaseEnvironment.__init__: _n_gen is 0, or the n_gen of the evolution record
\* when the options ask to resume from it
InitEnvGroup ==
    /\ envPc = "created"
    /\ n_gen \in RecordedGens
    /\ loop_i = 0
    /\ cross_idx = 0
    /\ _crossed = 0
    /\ genBest = {}
    /\ prevBest = {}

is_active(component_name) == options.activations[component_name]

\* the best fitness among the valid individuals of a list, as a set that is
\* empty when there is none
BestFitness(pop, ascending_order) ==
    LET fits == {fitness(pop[i]) : i \in {j \in DOMAIN pop : is_valid(pop[j])}}
    IN  {f \in fits : \A h \in fits : IF ascending_order THEN f <= h ELSE f >= h}

\* evolve() up to the loop: init_evolution and the first evaluate(); evolve()
\* can be called on a new environment and again on one whose evolution is over
EnvStart ==
    /\ envPc \in {"created", "over"}
    /\ envPc = "over" => n_gen + options.max_gen <= MaxGenerations
    /\ Evaluate
    /\ envPc' = IF popOp' = "evaluate_raised" THEN "raised" ELSE "loop"
    /\ loop_i' = 0
    /\ UNCHANGED <<n_gen, cross_idx, _crossed, genBest, prevBest>>

\* one more turn of the loop of evolve(): init_new_generation
EnvNewGeneration ==
    /\ envPc = "loop"
    /\ loop_i < options.max_gen
    /\ n_gen' = n_gen + 1
    /\ envPc' = "select"
    /\ UNCHANGED <<loop_i, cross_idx, _crossed, genBest, prevBest>>

\* the loop of evolve() ends, after max_gen turns or on _evolution_timeout(),
\* and end_evolution runs
EnvEnd ==
    /\ envPc = "loop"
    /\ loop_i = options.max_gen \/ options.timeout > 0
    /\ envPc' = "over"
    /\ UNCHANGED <<n_gen, loop_i, cross_idx, _crossed, genBest, prevBest>>

\* a phase whose component is not active does nothing
EnvSkip(phase, component_name, next) ==
    /\ envPc = phase
    /\ ~is_active(component_name)
    /\ envPc' = next
    /\ UNCHANGED <<n_gen, loop_i, cross_idx, _crossed, genBest, prevBest>>

\* select(): selector.select(population), followed step by step
EnvSelectStart ==
    /\ envPc = "select"
    /\ is_active("selector")
    /\ SelStart
    /\ UNCHANGED <<envPc, n_gen, loop_i, cross_idx, _crossed, genBest, prevBest>>

EnvSelectDraw ==
    /\ envPc = "select"
    /\ SelDraw
    /\ UNCHANGED <<envPc, n_gen, loop_i, cross_idx, _crossed, genBest, prevBest>>

EnvSelectFinish ==
    /\ envPc = "select"
    /\ SelFinish
    /\ envPc' = IF selPc' = "done" THEN "migrate" ELSE "raised"
    /\ UNCHANGED <<n_gen, loop_i, cross_idx, _crossed, genBest, prevBest>>

\* migrate()
EnvMigrate ==
    /\ envPc = "migrate"
    /\ is_active("migration")
    /\ Migrate
    /\ envPc' = "cross"
    /\ UNCHANGED <<n_gen, loop_i, cross_idx, _crossed, genBest, prevBest>>

\* cross(): crosser.cross(population), one individual of the list at a time
EnvCrossStep ==
    /\ envPc = "cross"
    /\ is_active("crosser")
    /\ CrossStep
    /\ UNCHANGED <<envPc, n_gen, loop_i, genBest, prevBest>>

EnvCrossDone ==
    /\ envPc = "cross"
    /\ is_active("crosser")
    /\ cross_idx >= Len(population)
    /\ cross_idx' = 0
    /\ _crossed' = CrossedSoFar
    /\ envPc' = "mutate"
    /\ UNCHANGED <<n_gen, loop_i, genBest, prevBest>>

\* mutate()
EnvMutate ==
    /\ envPc = "mutate"
    /\ is_active("mutator")
    /\ Mutate
    /\ envPc' = "evaluate"
    /\ UNCHANGED <<n_gen, loop_i, cross_idx, _crossed, genBest, prevBest>>

\* evaluate(), which no activation switches off
EnvEvaluate ==
    /\ envPc = "evaluate"
    /\ Evaluate
    /\ envPc' = IF popOp' = "evaluate_raised" THEN "raised" ELSE "elite"
    /\ UNCHANGED <<n_gen, loop_i, cross_idx, _crossed, genBest, prevBest>>

\* the end of a generation: the best fitness of the population is noted
EndOfGeneration ==
    /\ envPc' = "loop"
    /\ loop_i' = loop_i + 1
    /\ prevBest' = genBest
    /\ genBest' = BestFitness(population', options.ascending_order)
    /\ UNCHANGED <<n_gen, cross_idx, _crossed>>

\* update_elite(), the last phase of new_generation
EnvUpdateElite ==
    /\ envPc = "elite"
    /\ is_active("elite")
    /\ EliteUpdate
    /\ EndOfGeneration

EnvSkipElite ==
    /\ envPc = "elite"
    /\ ~is_active("elite")
    /\ UNCHANGED popVars
    /\ EndOfGeneration
----------------------------------------------------------------------------
(* NEAT genomes: individual/neural_network/neat.py, utils/graphs.py *)

\* options input_size and output_size
input_size == 1

output_size == 1

\* option enabled_default
enabled_default == TRUE

\* NodeGene.id_generator at NEATIndividual.initialize, the class counter
\* being 0: the ids of the input nodes, then those of the output nodes
input_ids == 0 .. (input_size - 1)

output_ids == input_size .. (input_size + output_size - 1)

\* options weight_init_mean, weight_init_std, weight_min_value and
\* weight_max_value
weight_init_mean == 0

weight_init_std == 0

weight_min_value == 0

weight_max_value == 0

\* the draws of np.random.normal(0, weight_mutation_power) followed
Perturbs == {-1, 1}

\* ConnectionGene._get_weight: random.gauss(weight_init_mean, weight_init_std)
_get_weight ==
    {weight_init_mean + d : d \in {-weight_init_std, 0, weight_init_std}}

\* ConnectionGene.set_weight
set_weight(weight) == Min2(weight_max_value, Max2(weight_min_value, weight))

\* the tracker's counters are followed up to one split node and its two
\* connections beyond the initial genome
MaxNodeCounter == input_size + output_size + 1

MaxConnectionCounter == input_size * output_size + 2

\* NodeGene.type: the input and output nodes are created with the ids above,
\* every other node by create_split_node
NodeType(node) ==
    IF node \in input_ids THEN "input"
    ELSE IF node \in output_ids THEN "output" ELSE "hidden"

ConnectionGene(gene_id, in_node, out_node, weight, enabled) ==
    [id |-> gene_id, in_node |-> in_node, out_node |-> out_node,
     weight |-> weight, enabled |-> enabled]

\* the innovation numbers NEATIndividual.initialize gives the initial
\* connections, in the order of its two loops
InitialConnectionIds(n_in, n_out) ==
    [key \in (0 .. (n_in - 1)) \X (n_in .. (n_in + n_out - 1)) |->
        key[1] * n_out + (key[2] - n_in)]

initial_connection_ids == InitialConnectionIds(input_size, output_size)

\* the genome NEATIndividual.__init__ builds for n_in input nodes and n_out
\* output nodes, its connections holding the weights given: 0 as __init__
\* leaves them, or the values _mutate_weights has set under options with a
\* wider range of weights
InitialGenome(n_in, n_out, weights) ==
    [nodes |-> 0 .. (n_in + n_out - 1),
     connections |-> {ConnectionGene(InitialConnectionIds(n_in, n_out)[key],
                                     key[1], key[2], weights[key], TRUE) :
                         key \in DOMAIN InitialConnectionIds(n_in, n_out)}]

\* NEATIndividual.__init__
NewGenome ==
    [nodes |-> input_ids \cup output_ids,
     connections |-> {ConnectionGene(initial_connection_ids[<<i, o>>], i, o, 0, TRUE) :
                         i \in input_ids, o \in output_ids}]

\* NEATIndividual.initialize, then a population of new individuals
InitNeatGroup ==
    neat_population = [i \in 1 .. DefaultOptions.size_population |-> NewGenome]

InitNeatTracker ==
    /\ connection_ids = initial_connection_ids
    /\ split_node_ids = <<>>
    /\ next_node_id = input_size + output_size
    /\ next_connection_id = input_size * output_size

\* creates_cycle(connections, (i, o)): the nodes reached from o are collected
\* pass after pass until a pass adds none, and i among them is a cycle
RECURSIVE Visit(_, _, _)
Visit(connections, visited, i) ==
    LET added == {c.out_node : c \in {d \in connections :
                        d.in_node \in visited /\ d.out_node \notin visited}}
    IN  IF i \in added THEN TRUE
        ELSE IF added = {} THEN FALSE
        ELSE Visit(connections, visited \cup added, i)

creates_cycle(connections, i, o) ==
    IF i = o THEN TRUE ELSE Visit(connections, {o}, i)

\* set.add of a gene: genes are equal and hashed by id, and a set keeps the
\* element it has
AddGene(connections, gene) ==
    IF \E c \in connections : c.id = gene.id THEN connections
    ELSE connections \cup {gene}

SetGenome(k, nodes, connections) ==
    neat_population' = [neat_population EXCEPT
                           ![k] = [nodes |-> nodes, connections |-> connections]]

\* a mutation that returns False
Refused == UNCHANGED <<neat_population, trkVars>>

\* NEATMutator._add_connection on the individual at position k
_add_connection(k) ==
    LET g == neat_population[k]
    IN  \E in_node \in g.nodes, out_node \in g.nodes :
            LET existing == {c \in g.connections :
                                c.in_node = in_node /\ c.out_node = out_node}
                enabled_connections == {c \in g.connections : c.enabled}
                r == TrackerGet(connection_ids, next_connection_id,
                                NormalizeKey(in_node, out_node))
            IN  IF in_node = out_node THEN Refused
                ELSE IF existing # {}
                THEN \E conn \in existing :
                         IF ~conn.enabled
                         THEN /\ SetGenome(k, g.nodes,
                                    (g.connections \ {conn})
                                        \cup {[conn EXCEPT !.enabled = TRUE]})
                              /\ UNCHANGED trkVars
                         ELSE Refused
                ELSE IF creates_cycle(enabled_connections, in_node, out_node)
                THEN Refused
                ELSE /\ r.counter <= MaxConnectionCounter
                     /\ \E weight \in _get_weight :
                            SetGenome(k, g.nodes,
                                AddGene(g.connections,
                                    ConnectionGene(r.id, in_node, out_node,
                                                   weight, enabled_default)))
                     /\ connection_ids' = r.map
                     /\ next_connection_id' = r.counter
                     /\ UNCHANGED <<split_node_ids, next_node_id>>

\* NEATMutator._del_connection
_del_connection(k) ==
    LET g == neat_population[k]
    IN  IF g.connections = {} THEN Refused
        ELSE \E connection \in g.connections :
                 /\ SetGenome(k, g.nodes, g.connections \ {connection})
                 /\ UNCHANGED trkVars

\* the same with the second connection given the weight 1 and not the
\* weight of the connection that is split
SplitConnectionUnitWeights(g, conn) ==
    LET rn == TrackerGet(split_node_ids, next_node_id,
                         NormalizeKey(conn.in_node, conn.out_node))
        new_node == rn.id
        r1 == TrackerGet(connection_ids, next_connection_id,
                         NormalizeKey(conn.in_node, new_node))
        r2 == TrackerGet(r1.map, r1.counter,
                         NormalizeKey(new_node, conn.out_node))
        conn1 == ConnectionGene(r1.id, conn.in_node, new_node, 1, TRUE)
        conn2 == ConnectionGene(r2.id, new_node, conn.out_node, 1, TRUE)
        disabled == (g.connections \ {conn})
                        \cup {[conn EXCEPT !.enabled = FALSE]}
    IN  [nodes |-> g.nodes \cup {new_node},
         connections |-> AddGene(AddGene(disabled, conn1), conn2),
         new_node |-> new_node,
         split_node_ids |-> rn.map, next_node_id |-> rn.counter,
         connection_ids |-> r2.map, next_connection_id |-> r2.counter]

\* the body of NEATMutator._add_node once conn is drawn and found enabled:
\* conn.disable(), create_split_node(conn), and the two connections made by
\* _create_connection and added by add_connection; the genome and the
\* tracker it leaves
SplitConnection(g, conn) ==
    LET rn == TrackerGet(split_node_ids, next_node_id,
                         NormalizeKey(conn.in_node, conn.out_node))
        new_node == rn.id
        r1 == TrackerGet(connection_ids, next_connection_id,
                         NormalizeKey(conn.in_node, new_node))
        r2 == TrackerGet(r1.map, r1.counter,
                         NormalizeKey(new_node, conn.out_node))
        conn1 == ConnectionGene(r1.id, conn.in_node, new_node, 1, TRUE)
        conn2 == ConnectionGene(r2.id, new_node, conn.out_node,
                                conn.weight, TRUE)
        disabled == (g.connections \ {conn})
                        \cup {[conn EXCEPT !.enabled = FALSE]}
    IN  [nodes |-> g.nodes \cup {new_node},
         connections |-> AddGene(AddGene(disabled, conn1), conn2),
         new_node |-> new_node,
         split_node_ids |-> rn.map, next_node_id |-> rn.counter,
         connection_ids |-> r2.map, next_connection_id |-> r2.counter]

\* NEATMutator._add_node on the individual at position k, the counters of
\* the tracker being followed up to the caps given
AddNodeWithin(k, node_cap, connection_cap) ==
    LET g == neat_population[k]
    IN  IF g.connections = {} THEN Refused
        ELSE \E conn \in g.connections :
            IF ~conn.enabled THEN Refused
            ELSE
              LET r == SplitConnection(g, conn)
              IN  /\ r.next_node_id <= node_cap
                  /\ r.next_connection_id <= connection_cap
                  /\ SetGenome(k, r.nodes, r.connections)
                  /\ split_node_ids' = r.split_node_ids
                  /\ next_node_id' = r.next_node_id
                  /\ connection_ids' = r.connection_ids
                  /\ next_connection_id' = r.next_connection_id

\* NEATMutator._add_node, with create_split_node and _create_connection
_add_node(k) == AddNodeWithin(k, MaxNodeCounter, MaxConnectionCounter)

\* NEATMutator._del_node, with remove_node
_del_node(k) ==
    LET g == neat_population[k]
    IN  \E node \in g.nodes :
            IF NodeType(node) # "hidden" THEN Refused
            ELSE /\ SetGenome(k, g.nodes \ {node},
                        {c \in g.connections :
                            c.in_node # node /\ c.out_node # node})
                 /\ UNCHANGED trkVars

\* NEATMutator._toggle_connection
_toggle_connection(k) ==
    LET g == neat_population[k]
    IN  IF g.connections = {} THEN Refused
        ELSE \E conn \in g.connections :
                 /\ SetGenome(k, g.nodes,
                        (g.connections \ {conn})
                            \cup {[conn EXCEPT !.enabled = ~conn.enabled]})
                 /\ UNCHANGED trkVars

\* the connections _mutate_weights can leave: every connection is given 0
\* or its weight plus a perturbation, through set_weight
MutatedWeights(connections) ==
    LET ids == {c.id : c \in connections}
    IN  {{[c EXCEPT !.weight = IF c.id \in reset THEN set_weight(0)
                               ELSE set_weight(perturb[c.id] + c.weight)] :
             c \in connections} :
            reset \in SUBSET ids, perturb \in [ids -> Perturbs]}

\* NEATMutator._mutate_weights
_mutate_weights(k) ==
    LET g == neat_population[k]
    IN  IF g.connections = {} THEN Refused
        ELSE \E connections \in MutatedWeights(g.connections) :
                 /\ SetGenome(k, g.nodes, connections)
                 /\ UNCHANGED trkVars

----------------------------------------------------------------------------
(* NEAT crossover: crosser/neural_network/neat.py *)

GeneIds(g) == {c.id : c \in g.connections}

GeneOf(g, gene_id) == CHOOSE c \in g.connections : c.id = gene_id

\* NEATCrosser._cross once fitter and weaker are told apart: chosen_weaker
\* are the matching genes taken from the weaker parent, disabling those for
\* which the draw is below disable_inheritance_prob
_cross(fitter, weaker, equal_fitness, chosen_weaker, disabling) ==
    LET Child(gene_id) ==
            IF gene_id \in GeneIds(fitter) /\ gene_id \in GeneIds(weaker)
            THEN LET cg1 == GeneOf(fitter, gene_id)
                     cg2 == GeneOf(weaker, gene_id)
                     chosen == IF gene_id \in chosen_weaker THEN cg2 ELSE cg1
                 IN  IF (~cg1.enabled \/ ~cg2.enabled) /\ gene_id \in disabling
                     THEN [chosen EXCEPT !.enabled = FALSE]
                     ELSE chosen
            ELSE IF gene_id \in GeneIds(fitter) THEN GeneOf(fitter, gene_id)
            ELSE GeneOf(weaker, gene_id)
        inherited == {gene_id \in GeneIds(fitter) \cup GeneIds(weaker) :
                         gene_id \in GeneIds(fitter) \/ equal_fitness}
    IN  [nodes |-> fitter.nodes \cup weaker.nodes,
         connections |-> {Child(gene_id) : gene_id \in inherited}]

\* the children _cross can return for ind1 and ind2: the fitter is the one
\* of greater fitness, either of them when the fitness is equal
CrossChildren(ind1, ind2, orders) ==
    LET matching == GeneIds(ind1) \cap GeneIds(ind2)
        cases == {c \in orders \X BOOLEAN :
                     /\ c[1] = "greater" => c[2]
                     /\ c[1] = "less" => ~c[2]}
    IN  {_cross(IF c[2] THEN ind1 ELSE ind2, IF c[2] THEN ind2 ELSE ind1,
                c[1] = "equal", chosen_weaker, disabling) :
            c \in cases, chosen_weaker \in SUBSET matching,
            disabling \in SUBSET matching}

\* one crossing of cross(population): ind1 of the population, ind2 drawn
\* with get_random, their fitness compared, and the child built from the
\* data added to the population
NeatCross ==
    /\ Len(neat_population) <= DefaultOptions.size_population
    /\ \E i \in DOMAIN neat_population, j \in DOMAIN neat_population :
          \E child \in CrossChildren(neat_population[i], neat_population[j],
                            IF i = j THEN {"equal"}
                            ELSE {"greater", "less", "equal"}) :
              neat_population' = Append(neat_population, child)
    /\ UNCHANGED trkVars

\* BasePopulation.update with a selection that keeps some of the individuals
NeatUpdate ==
    /\ \E keep \in (SUBSET (DOMAIN neat_population)) \ {{}, DOMAIN neat_population} :
           neat_population' = Pick(neat_population, keep, 1)
    /\ UNCHANGED trkVars
----------------------------------------------------------------------------
(* Speciated population: population/speciated.py *)

\* The individuals of a speciated population are individuals whose genome g
\* is a NEAT genome [nodes, connections]. Distances and the threshold are
\* counted in tenths, and a distance is the fraction num / den.

MaxOf(S) == CHOOSE x \in S : \A y \in S : y <= x

RECURSIVE SumOfDiffs(_, _, _)
SumOfDiffs(ids, genome1, genome2) ==
    IF ids = {} THEN 0
    ELSE LET gene_id == CHOOSE x \in ids : TRUE
         IN  Abs(GeneOf(genome1, gene_id).weight - GeneOf(genome2, gene_id).weight)
                 + SumOfDiffs(ids \ {gene_id}, genome1, genome2)

\* the distance normalised by the number of genes of the first genome and
\* not by the one of the larger genome
GeneticDistanceByFirstGenome(genome1, genome2) ==
    LET all_ids1 == GeneIds(genome1)
        all_ids2 == GeneIds(genome2)
        all_ids == all_ids1 \cup all_ids2
        max_id1 == IF all_ids1 # {} THEN MaxOf(all_ids1) ELSE -1
        max_id2 == IF all_ids2 # {} THEN MaxOf(all_ids2) ELSE -1
        min_common_max == Min2(max_id1, max_id2)
        matching_genes == all_ids1 \cap all_ids2
        excess_count == Cardinality({gene_id \in all_ids \ matching_genes :
                                        gene_id > min_common_max})
        disjoint_count == Cardinality({gene_id \in all_ids \ matching_genes :
                                          gene_id <= min_common_max})
        M == Max2(Cardinality(matching_genes), 1)
        N == Max2(Cardinality(all_ids1), 1)
    IN  IF all_ids = {} THEN [num |-> 0, den |-> 1]
        ELSE [num |-> (10 * excess_count + 10 * disjoint_count) * M
                          + 4 * SumOfDiffs(matching_genes, genome1, genome2) * N,
              den |-> N * M]

\* _calculate_genetic_distance with c1 = c2 = 1.0 and c3 = 0.4: in tenths,
\* 10 * E / N + 10 * D / N + 4 * (sum of the weight differences) / M, M being
\* the number of matching genes
_calculate_genetic_distance(genome1, genome2) ==
    LET all_ids1 == GeneIds(genome1)
        all_ids2 == GeneIds(genome2)
        all_ids == all_ids1 \cup all_ids2
        max_id1 == IF all_ids1 # {} THEN MaxOf(all_ids1) ELSE -1
        max_id2 == IF all_ids2 # {} THEN MaxOf(all_ids2) ELSE -1
        min_common_max == Min2(max_id1, max_id2)
        matching_genes == all_ids1 \cap all_ids2
        excess_count == Cardinality({gene_id \in all_ids \ matching_genes :
                                        gene_id > min_common_max})
        disjoint_count == Cardinality({gene_id \in all_ids \ matching_genes :
                                          gene_id <= min_common_max})
        M == Max2(Cardinality(matching_genes), 1)
        N == Max2(Max2(Cardinality(all_ids1), Cardinality(all_ids2)), 1)
    IN  IF all_ids = {} THEN [num |-> 0, den |-> 1]
        ELSE [num |-> (10 * excess_count + 10 * disjoint_count) * M
                          + 4 * SumOfDiffs(matching_genes, genome1, genome2) * N,
              den |-> N * M]

\* distance < self._compatibility_threshold
WithinThreshold(distance, threshold) == distance.num < threshold * distance.den

\* "individual in list": NEATIndividual.__eq__ compares the ids
InList(individual, list) == \E i \in DOMAIN list : list[i].id = individual.id

\* Species.__init__; max_fitness_ever is the empty set for float('-inf')
Species(representative) ==
    [representative |-> representative, members |-> <<representative>>,
     age |-> 0, last_improvement |-> 0, max_fitness_ever |-> {}]

\* _find_species_for_individual: the position of the first species whose
\* representative is within the threshold, 0 for None
_find_species_for_individual(individual, species, threshold) ==
    LET close == {k \in DOMAIN species :
                     WithinThreshold(
                         _calculate_genetic_distance(individual.g,
                                                     species[k].representative.g),
                         threshold)}
    IN  IF close = {} THEN 0 ELSE CHOOSE k \in close : \A j \in close : k <= j

\* Species.get_best_fitness: no fitness is NaN
get_best_fitness(sp) == MaxOf({fitness(sp.members[i]) : i \in DOMAIN sp.members})

\* Species.update_age and Species.check_improvement
AgeAndImprove(sp, generation) ==
    LET current_best == get_best_fitness(sp)
        aged == [sp EXCEPT !.age = @ + 1]
    IN  IF sp.max_fitness_ever = {} \/ (\A f \in sp.max_fitness_ever : current_best > f)
        THEN [aged EXCEPT !.max_fitness_ever = {current_best},
                          !.last_improvement = generation]
        ELSE aged

\* _speciate_population up to the choice of the new representatives
SpeciesBeforeChoice(pop, species, threshold, generation) ==
    LET cleared == [k \in DOMAIN species |->
                       [species[k] EXCEPT !.members = <<species[k].representative>>]]
        kept == SelectSeq(cleared, LAMBDA sp : InList(sp.representative, pop))
        target(individual) == _find_species_for_individual(individual, kept, threshold)
        joined == [k \in DOMAIN kept |->
                      [kept[k] EXCEPT !.members =
                          @ \o SelectSeq(pop, LAMBDA individual : target(individual) = k)]]
        unassigned == SelectSeq(pop, LAMBDA individual : target(individual) = 0)
        all == joined \o [k \in DOMAIN unassigned |-> Species(unassigned[k])]
    IN  [k \in DOMAIN all |-> AgeAndImprove(all[k], generation)]

\* _speciate_population: every outcome of select_new_representative, which
\* draws the representative of each species among its members
_speciate_population(pop, species, threshold, generation) ==
    LET before == SpeciesBeforeChoice(pop, species, threshold, generation)
        picks == {pick \in [DOMAIN before -> 1 .. (Len(pop) + 1)] :
                     \A k \in DOMAIN before : pick[k] <= Len(before[k].members)}
    IN  {[k \in DOMAIN before |->
             [before[k] EXCEPT !.representative = before[k].members[pick[k]]]] :
            pick \in picks}

\* _adjust_compatibility_threshold with target_species = 10 and
\* compatibility_modifier = 0.3, kept between 0.1 and 10.0
_adjust_compatibility_threshold(threshold, species) ==
    LET adjusted == IF Len(species) < 10 THEN threshold - 3
                    ELSE IF Len(species) > 10 THEN threshold + 3
                    ELSE threshold
    IN  Max2(1, Min2(100, adjusted))

\* _remove_stagnant_species with min_species_size = 2: the species removed
IsStagnant(sp, generation, max_stagnation) ==
    /\ generation - sp.last_improvement >= max_stagnation
    /\ Len(sp.members) < 2

\* the individual whose id is old_id is the object new: every reference to it
\* held by a species shows the object as it is now
Alias(species, old_id, new) ==
    [k \in DOMAIN species |->
        [species[k] EXCEPT
            !.representative = IF @.id = old_id THEN new ELSE @,
            !.members = [i \in DOMAIN @ |-> IF @[i].id = old_id THEN new ELSE @[i]]]]

\* the genomes followed, among those the NEAT mutations lead to from the
\* initial genome of 1 input and 1 output: some of the initial connection and
\* of the connection into the node that splits it, each with one of the
\* weights followed
SpeciesWeights == {0, 2}

SpeciesGenes ==
    {[id |-> 0, in_node |-> 0, out_node |-> 1],
     [id |-> 1, in_node |-> 0, out_node |-> 2]}

SpeciesGenomes ==
    UNION {{[nodes |-> {0, 1} \cup UNION {{c.in_node, c.out_node} : c \in genes},
             connections |-> {ConnectionGene(c.id, c.in_node, c.out_node,
                                             weights[c.id], TRUE) : c \in genes}] :
               weights \in [{c.id : c \in genes} -> SpeciesWeights]} :
           genes \in SUBSET SpeciesGenes}

\* the evaluation function of the run, a function of the genome only
SpeciesEvalFunc(genome) == Cardinality(genome.connections)

\* the mutations followed in a run: the ids the counter gives
MaxSpeciesId == DefaultOptions.size_population + 2

\* SpeciatedPopulation.__init__: BasePopulation.__init__ creates the
\* individuals, each with the initial genome, and the first
\* _speciate_population runs on an empty list of species
InitSpeciesGroup(thresholds, stagnations) ==
    /\ options = DefaultOptions
    /\ population = [i \in 1 .. options.size_population |-> NewInd(i - 1, NewGenome)]
    /\ sorted = FALSE
    /\ immigrated = 0
    /\ id_counter = options.size_population
    /\ popOp = "init"
    /\ _generation = 0
    /\ _compatibility_threshold \in thresholds
    /\ _max_stagnation \in stagnations
    /\ _species \in _speciate_population(population, <<>>, _compatibility_threshold, 0)

\* BaseMutator.mutate on one individual of a speciated population: the NEAT
\* mutations leave another genome, the population is unsorted, has_mutate
SpeciatedMutate ==
    /\ id_counter < MaxSpeciesId
    /\ \E k \in DOMAIN population, genome \in SpeciesGenomes :
           LET individual == population[k]
               mutated == has_mutate([individual EXCEPT !.g = genome], id_counter)
           IN  /\ genome # individual.g
               /\ population' = [population EXCEPT ![k] = mutated]
               /\ _species' = Alias(_species, individual.id, mutated)
    /\ sorted' = FALSE
    /\ id_counter' = id_counter + 1
    /\ popOp' = "mutate"
    /\ UNCHANGED <<options, immigrated, _compatibility_threshold, _max_stagnation,
                   _generation>>

\* the individual as the evaluator leaves it
SpeciesEvaluateInd(individual) ==
    IF individual.ev THEN individual
    ELSE register_evaluation(individual, SpeciesEvalFunc(individual.g), "")

RECURSIVE AliasAll(_, _, _)
AliasAll(species, olds, news) ==
    IF olds = <<>> THEN species
    ELSE AliasAll(Alias(species, Head(olds).id, Head(news)), Tail(olds), Tail(news))

\* SingleEvaluator.evaluate on a speciated population
SpeciatedEvaluate ==
    LET evaluated == [i \in DOMAIN population |-> SpeciesEvaluateInd(population[i])]
        st == update_order([pop |-> evaluated, sorted |-> sorted], options)
    IN  /\ population' = st.pop
        /\ sorted' = st.sorted
        /\ _species' = AliasAll(_species, population, evaluated)
        /\ popOp' = "evaluate"
        /\ UNCHANGED <<options, immigrated, id_counter, _compatibility_threshold,
                       _max_stagnation, _generation>>

\* SpeciatedPopulation.update(selection): BasePopulation.update, then the
\* speciation, the adjustment of the threshold and the removal of the
\* stagnant species with their members
SpeciatedUpdate ==
    /\ _generation < DefaultOptions.max_gen
    /\ \E keep \in (SUBSET (DOMAIN population)) \ {{}} :
           LET selection == Pick(population, keep, 1)
               pop == sort_sample(selection, options.ascending_order)
               generation == _generation + 1
           IN  \E species \in _speciate_population(pop, _species,
                                   _compatibility_threshold, generation) :
                   LET removed == SelectSeq(species,
                                      LAMBDA sp : IsStagnant(sp, generation, _max_stagnation))
                       gone == UNION {{removed[k].members[i].id :
                                          i \in DOMAIN removed[k].members} :
                                      k \in DOMAIN removed}
                   IN  /\ _compatibility_threshold' =
                              _adjust_compatibility_threshold(_compatibility_threshold,
                                                              species)
                       /\ _species' = SelectSeq(species,
                              LAMBDA sp : ~IsStagnant(sp, generation, _max_stagnation))
                       /\ population' = SelectSeq(pop,
                              LAMBDA individual : individual.id \notin gone)
                       /\ _generation' = generation
    /\ sorted' = TRUE
    /\ popOp' = "update"
    /\ UNCHANGED <<options, immigrated, id_counter, _max_stagnation>>

----------------------------------------------------------------------------
(* Interactive environment: environment/interface.py *)

\* The handlers of the buttons run in the UI thread and run_evolution in a
\* background thread; each statement that reads or writes a flag the two
\* threads share is one step. A generation is two steps: it starts
\* (init_new_generation counts it) and it ends.

\* start_evolution_thread, called before the flags of the caller are set: the
\* thread is created when there is none or when it has ended
start_evolution_thread ==
    IF evolution_thread \in {"none", "dead"}
    THEN /\ should_stop' = FALSE
         /\ step_mode' = FALSE
         /\ evolution_thread' = "while"
    ELSE UNCHANGED <<should_stop, step_mode, evolution_thread>>

\* the click on the play button: toggle_evolution up to its first write
toggle_evolution ==
    /\ uiPc = "idle"
    /\ IF ~is_running
       THEN /\ start_evolution_thread
            /\ uiPc' = "toggle_running"
       ELSE /\ uiPc' = IF is_paused THEN "toggle_resume" ELSE "toggle_pause"
            /\ UNCHANGED <<should_stop, step_mode, evolution_thread>>
    /\ UNCHANGED <<is_running, is_paused, _n_gen, step_requested>>

\* the writes of toggle_evolution, one at a time
toggle_evolution_write ==
    /\ \/ /\ uiPc = "toggle_running"
          /\ is_running' = TRUE
          /\ uiPc' = "toggle_resume"
          /\ UNCHANGED is_paused
       \/ /\ uiPc = "toggle_resume"
          /\ is_paused' = FALSE
          /\ uiPc' = "idle"
          /\ UNCHANGED is_running
       \/ /\ uiPc = "toggle_pause"
          /\ is_paused' = TRUE
          /\ uiPc' = "idle"
          /\ UNCHANGED is_running
    /\ UNCHANGED <<step_mode, should_stop, evolution_thread, _n_gen, step_requested>>

\* a generation can still end: the counter is below max_gen or one is running
GenerationPossible ==
    _n_gen < DefaultOptions.max_gen \/ evolution_thread = "generation"

\* the click on the step button: step_evolution up to its first write
step_evolution ==
    /\ uiPc = "idle"
    /\ IF ~is_running
       THEN /\ start_evolution_thread
            /\ uiPc' = "step_running"
       ELSE /\ uiPc' = "step_pause"
            /\ UNCHANGED <<should_stop, step_mode, evolution_thread>>
    /\ step_requested' = GenerationPossible
    /\ UNCHANGED <<is_running, is_paused, _n_gen>>

\* the writes of step_evolution, one at a time
step_evolution_write ==
    /\ \/ /\ uiPc = "step_running"
          /\ is_running' = TRUE
          /\ uiPc' = "step_pause"
          /\ UNCHANGED <<is_paused, step_mode>>
       \/ /\ uiPc = "step_pause"
          /\ is_paused' = TRUE
          /\ uiPc' = "step_mode"
          /\ UNCHANGED <<is_running, step_mode>>
       \/ /\ uiPc = "step_mode"
          /\ step_mode' = TRUE
          /\ uiPc' = "idle"
          /\ UNCHANGED <<is_running, is_paused>>
    /\ UNCHANGED <<should_stop, evolution_thread, _n_gen, step_requested>>

\* run_evolution: one statement of the loop of the background thread
run_evolution ==
    \/ /\ evolution_thread = "while"
       /\ evolution_thread' =
              IF ~should_stop /\ _n_gen < DefaultOptions.max_gen
              THEN "if_paused" ELSE "dead"
       /\ UNCHANGED <<is_running, is_paused, step_mode, should_stop, uiPc, _n_gen,
                      step_requested>>
    \/ /\ evolution_thread = "if_paused"
       /\ evolution_thread' = IF ~is_paused THEN "new_generation" ELSE "sleep"
       /\ UNCHANGED <<is_running, is_paused, step_mode, should_stop, uiPc, _n_gen,
                      step_requested>>
    \/ /\ evolution_thread = "sleep"
       /\ evolution_thread' = "while"
       /\ UNCHANGED <<is_running, is_paused, step_mode, should_stop, uiPc, _n_gen,
                      step_requested>>
    \/ /\ evolution_thread = "new_generation"
       /\ _n_gen' = _n_gen + 1
       /\ evolution_thread' = "generation"
       /\ UNCHANGED <<is_running, is_paused, step_mode, should_stop, uiPc,
                      step_requested>>
    \/ /\ evolution_thread = "generation"
       /\ evolution_thread' = "if_step"
       /\ step_requested' = FALSE
       /\ UNCHANGED <<is_running, is_paused, step_mode, should_stop, uiPc, _n_gen>>
    \/ /\ evolution_thread = "if_step"
       /\ evolution_thread' = IF step_mode THEN "clear_step" ELSE "while"
       /\ UNCHANGED <<is_running, is_paused, step_mode, should_stop, uiPc, _n_gen,
                      step_requested>>
    \/ /\ evolution_thread = "clear_step"
       /\ step_mode' = FALSE
       /\ evolution_thread' = "set_paused"
       /\ UNCHANGED <<is_running, is_paused, should_stop, uiPc, _n_gen, step_requested>>
    \/ /\ evolution_thread = "set_paused"
       /\ is_paused' = TRUE
       /\ evolution_thread' = "while"
       /\ UNCHANGED <<is_running, step_mode, should_stop, uiPc, _n_gen, step_requested>>

----------------------------------------------------------------------------
(* Specifications *)

IdleTrk ==
    /\ InitTrkGroup
    /\ lastCall = NoCall

IdleElite == InitEliteGroup

IdleSel == InitSelGroup

IdleEnv ==
    /\ envPc = "created"
    /\ n_gen = 0
    /\ loop_i = 0
    /\ cross_idx = 0
    /\ _crossed = 0
    /\ genBest = {}
    /\ prevBest = {}

IdleNeat == neat_population = <<>>

IdleSpecies ==
    /\ _species = <<>>
    /\ _compatibility_threshold = 0
    /\ _max_stagnation = 0
    /\ _generation = 0

IdleIface ==
    /\ is_running = FALSE
    /\ is_paused = FALSE
    /\ step_mode = FALSE
    /\ should_stop = FALSE
    /\ evolution_thread = "none"
    /\ uiPc = "idle"
    /\ _n_gen = 0
    /\ step_requested = FALSE

permFrame == <<trkVars, callVars, popVars, eliteVars, selVars, envVars, neatVars, speciesVars, ifaceVars>>
innovFrame == <<permVars, popVars, eliteVars, selVars, envVars, neatVars, speciesVars, ifaceVars>>
popFrame == <<permVars, trkVars, callVars, eliteVars, selVars, envVars, neatVars, speciesVars, ifaceVars>>
eliteFrame == <<permVars, trkVars, callVars, selVars, envVars, neatVars, speciesVars, ifaceVars>>
selFrame == <<permVars, trkVars, callVars, eliteVars, envVars, neatVars, speciesVars, ifaceVars>>
evoFrame == <<permVars, trkVars, callVars, neatVars, speciesVars, ifaceVars>>

InitPerm == InitPermGroup /\ IdleTrk /\ IdlePop /\ IdleElite /\ IdleSel /\ IdleEnv /\ IdleNeat /\ IdleSpecies /\ IdleIface

NextPerm ==
    \/ MutateMulti /\ UNCHANGED permFrame
    \/ MutateSingle /\ UNCHANGED permFrame
    \/ MutateReverse /\ UNCHANGED permFrame
    \/ MutateShuffle /\ UNCHANGED permFrame
    \/ MutateSwap /\ UNCHANGED permFrame
    \/ CrossPMX /\ UNCHANGED permFrame

SpecPerm == InitPerm /\ [][NextPerm]_vars

InitInnov == IdlePerm /\ IdleTrk /\ IdlePop /\ IdleElite /\ IdleSel /\ IdleEnv /\ IdleNeat /\ IdleSpecies /\ IdleIface

NextInnov ==
    \/ \E s, t \in NodeKeys : get_connection_id(s, t) /\ UNCHANGED innovFrame
    \/ \E s, t \in NodeKeys : get_split_node_id(s, t) /\ UNCHANGED innovFrame
    \/ \E n \in 0..MaxCounter : sync_node_counter(n) /\ UNCHANGED innovFrame
    \/ \E n \in 0..MaxCounter : sync_connection_counter(n) /\ UNCHANGED innovFrame

SpecInnov == InitInnov /\ [][NextInnov]_vars

\* the population on its own, under both orders, kept sorted or not, with and
\* without immigration
PopOptions ==
    {[DefaultOptions EXCEPT !.ascending_order = a, !.keep_sorted = k,
                            !.immigration_rate = r] :
        a \in BOOLEAN, k \in BOOLEAN, r \in {5}}

InitPop == IdlePerm /\ IdleTrk /\ InitPopGroup(PopOptions) /\ IdleElite /\ IdleSel /\ IdleEnv /\ IdleNeat /\ IdleSpecies /\ IdleIface

NextPop ==
    \/ AddIndividual /\ UNCHANGED popFrame
    \/ Sort /\ UNCHANGED popFrame
    \/ Update /\ UNCHANGED popFrame
    \/ Migrate /\ UNCHANGED popFrame
    \/ Evaluate /\ UNCHANGED popFrame

SpecPop == InitPop /\ [][NextPop]_vars

\* the best and the worst individual asked of a population that is extended,
\* evaluated and sorted between the calls
extremeFrame == <<permVars, trkVars, eliteVars, selVars, envVars, neatVars, speciesVars, ifaceVars>>

ExtremeOptions ==
    {[DefaultOptions EXCEPT !.ascending_order = a, !.keep_sorted = k] :
        a \in BOOLEAN, k \in BOOLEAN}

InitExtreme ==
    /\ IdlePerm /\ IdleTrk /\ InitPopGroup(ExtremeOptions) /\ IdleElite /\ IdleSel
    /\ IdleEnv /\ IdleNeat /\ IdleSpecies /\ IdleIface

NextExtreme ==
    \/ AddIndividual /\ UNCHANGED <<extremeFrame, callVars>>
    \/ Evaluate /\ UNCHANGED <<extremeFrame, callVars>>
    \/ Sort /\ UNCHANGED <<extremeFrame, callVars>>
    \/ GetBestInd /\ UNCHANGED extremeFrame
    \/ GetWorstInd /\ UNCHANGED extremeFrame

SpecExtreme == InitExtreme /\ [][NextExtreme]_vars

\* the elite fed by a population that is evaluated, mutated, extended and cut
\* between the updates
EliteOptions ==
    {[DefaultOptions EXCEPT !.ascending_order = a, !.elite_size = n] :
        a \in BOOLEAN, n \in 0..2}

InitElite == IdlePerm /\ IdleTrk /\ InitPopGroup(EliteOptions) /\ InitEliteGroup /\ IdleSel /\ IdleEnv /\ IdleNeat /\ IdleSpecies /\ IdleIface

NextElite ==
    \/ Evaluate /\ UNCHANGED <<eliteFrame, eliteVars>>
    \/ Mutate /\ UNCHANGED <<eliteFrame, eliteVars>>
    \/ Update /\ UNCHANGED <<eliteFrame, eliteVars>>
    \/ EliteUpdate /\ UNCHANGED eliteFrame

SpecElite == InitElite /\ [][NextElite]_vars

\* one selector on a population that is evaluated or not when select is called
SelOptions ==
    {[DefaultOptions EXCEPT !.ascending_order = a, !.allow_invalid = ai,
                            !.allow_copies = ac, !.limit_size = ls,
                            !.keep_best = kb, !.max_single_select_fail = m,
                            !.selector = s, !.selection_ratio = 10] :
        a \in BOOLEAN, ai \in BOOLEAN, ac \in BOOLEAN, ls \in BOOLEAN,
        kb \in BOOLEAN, m \in {1, 2, -1}, s \in {"tournament", "wheel"}}

InitSel ==
    /\ IdlePerm /\ IdleTrk /\ IdleElite
    /\ InitPopGroup(SelOptions)
    /\ InitSelGroup
    /\ IdleEnv
    /\ IdleNeat /\ IdleSpecies /\ IdleIface

NextSel ==
    \/ selPc \in {"idle", "done"} /\ Evaluate /\ UNCHANGED <<selFrame, selVars>>
    \/ SelStart /\ UNCHANGED selFrame
    \/ SelDraw /\ UNCHANGED selFrame
    \/ SelGiveUp /\ UNCHANGED selFrame
    \/ SelFinish /\ UNCHANGED selFrame

SpecSel == InitSel /\ [][NextSel]_vars

\* the generation loop with keep_best set, with and without copies, for both
\* orders, with all the phases active, with selection and evaluation only, or
\* with mutation, evaluation and elite only
AllActive ==
    [evaluator |-> TRUE, selector |-> TRUE, migration |-> TRUE, crosser |-> TRUE, mutator |-> TRUE,
     elite |-> TRUE]

SelectionOnly ==
    [evaluator |-> TRUE, selector |-> TRUE, migration |-> FALSE, crosser |-> FALSE, mutator |-> FALSE,
     elite |-> FALSE]

MutationOnly ==
    [evaluator |-> FALSE, selector |-> FALSE, migration |-> FALSE, crosser |-> FALSE, mutator |-> TRUE,
     elite |-> TRUE]

EvoOptions ==
    {[DefaultOptions EXCEPT !.ascending_order = a, !.allow_copies = ac,
                            !.activations = act, !.evaluation_func = f] :
        a \in BOOLEAN, ac \in BOOLEAN, act \in {AllActive, SelectionOnly, MutationOnly},
        f \in {"ignore", "ignore_empty", "error"}}

InitEvo ==
    /\ IdlePerm /\ IdleTrk
    /\ InitPopGroup(EvoOptions)
    /\ InitEliteGroup
    /\ InitSelGroup
    /\ InitEnvGroup
    /\ IdleNeat /\ IdleSpecies /\ IdleIface

NextEvo ==
    \/ EnvStart /\ UNCHANGED <<evoFrame, eliteVars, selVars>>
    \/ EnvNewGeneration /\ UNCHANGED <<evoFrame, popVars, eliteVars, selVars>>
    \/ EnvEnd /\ UNCHANGED <<evoFrame, popVars, eliteVars, selVars>>
    \/ EnvSelectStart /\ UNCHANGED <<evoFrame, eliteVars>>
    \/ EnvSelectDraw /\ UNCHANGED <<evoFrame, eliteVars>>
    \/ EnvSelectFinish /\ UNCHANGED <<evoFrame, eliteVars>>
    \/ EnvSkip("select", "selector", "migrate")
           /\ UNCHANGED <<evoFrame, popVars, eliteVars, selVars>>
    \/ EnvMigrate /\ UNCHANGED <<evoFrame, eliteVars, selVars>>
    \/ EnvSkip("migrate", "migration", "cross")
           /\ UNCHANGED <<evoFrame, popVars, eliteVars, selVars>>
    \/ EnvCrossStep /\ UNCHANGED <<evoFrame, eliteVars, selVars>>
    \/ EnvCrossDone /\ UNCHANGED <<evoFrame, popVars, eliteVars, selVars>>
    \/ EnvSkip("cross", "crosser", "mutate")
           /\ UNCHANGED <<evoFrame, popVars, eliteVars, selVars>>
    \/ EnvMutate /\ UNCHANGED <<evoFrame, eliteVars, selVars>>
    \/ EnvSkip("mutate", "mutator", "evaluate")
           /\ UNCHANGED <<evoFrame, popVars, eliteVars, selVars>>
    \/ EnvEvaluate /\ UNCHANGED <<evoFrame, eliteVars, selVars>>
    \/ EnvUpdateElite /\ UNCHANGED <<evoFrame, selVars>>
    \/ EnvSkipElite /\ UNCHANGED <<evoFrame, eliteVars, selVars>>

SpecEvo == InitEvo /\ [][NextEvo]_vars

neatFrame == <<permVars, callVars, popVars, eliteVars, selVars, envVars, speciesVars, ifaceVars>>

\* two NEAT individuals mutated, crossed and selected

InitNeat ==
    /\ IdlePerm /\ lastCall = NoCall /\ IdlePop /\ IdleElite /\ IdleSel /\ IdleEnv
    /\ InitNeatTracker
    /\ InitNeatGroup
    /\ IdleSpecies /\ IdleIface

NextNeat ==
    \/ \E k \in DOMAIN neat_population : _add_connection(k) /\ UNCHANGED neatFrame
    \/ \E k \in DOMAIN neat_population : _del_connection(k) /\ UNCHANGED neatFrame
    \/ \E k \in DOMAIN neat_population : _add_node(k) /\ UNCHANGED neatFrame
    \/ \E k \in DOMAIN neat_population : _del_node(k) /\ UNCHANGED neatFrame
    \/ \E k \in DOMAIN neat_population : _mutate_weights(k) /\ UNCHANGED neatFrame
    \/ \E k \in DOMAIN neat_population : _toggle_connection(k) /\ UNCHANGED neatFrame
    \/ NeatCross /\ UNCHANGED neatFrame
    \/ NeatUpdate /\ UNCHANGED neatFrame

SpecNeat == InitNeat /\ [][NextNeat]_vars

\* one NEAT individual with 2 input nodes, 1 output node and no hidden node,
\* whose connections are split and toggled; the tracker is followed up to two
\* split nodes and their four connections
SplitWeights == {-1, 0, 2}

SplitGenomes ==
    {InitialGenome(2, 1, weights) :
        weights \in [DOMAIN InitialConnectionIds(2, 1) -> SplitWeights]}

InitSplit ==
    /\ IdlePerm /\ lastCall = NoCall /\ IdlePop /\ IdleElite /\ IdleSel /\ IdleEnv
    /\ connection_ids = InitialConnectionIds(2, 1)
    /\ split_node_ids = <<>>
    /\ next_node_id = 2 + 1
    /\ next_connection_id = 2 * 1
    /\ \E g \in SplitGenomes : neat_population = <<g>>
    /\ IdleSpecies /\ IdleIface

NextSplit ==
    \/ AddNodeWithin(1, (2 + 1) + 2, (2 * 1) + 4) /\ UNCHANGED neatFrame
    \/ _toggle_connection(1) /\ UNCHANGED neatFrame

SpecSplit == InitSplit /\ [][NextSplit]_vars

\* a speciated population of NEAT individuals that are mutated, evaluated
\* and selected, under a low, a middle and the default threshold
speciesFrame == <<permVars, trkVars, callVars, eliteVars, selVars, envVars, neatVars, ifaceVars>>

InitSpecies ==
    /\ IdlePerm /\ IdleTrk /\ IdleElite /\ IdleSel /\ IdleEnv /\ IdleNeat
    /\ IdleIface
    /\ InitSpeciesGroup({1, 12, 30}, {1, 15})

NextSpecies ==
    \/ SpeciatedMutate /\ UNCHANGED speciesFrame
    \/ SpeciatedEvaluate /\ UNCHANGED speciesFrame
    \/ SpeciatedUpdate /\ UNCHANGED speciesFrame

SpecSpecies == InitSpecies /\ [][NextSpecies]_vars

\* the interactive environment after __init__, with its two threads
ifaceFrame == <<permVars, trkVars, callVars, popVars, eliteVars, selVars, envVars,
                neatVars, speciesVars>>

InitIface ==
    /\ IdlePerm /\ IdleTrk /\ IdlePop /\ IdleElite /\ IdleSel /\ IdleEnv
    /\ IdleNeat /\ IdleSpecies /\ IdleIface

NextIface ==
    \/ toggle_evolution /\ UNCHANGED ifaceFrame
    \/ toggle_evolution_write /\ UNCHANGED ifaceFrame
    \/ step_evolution /\ UNCHANGED ifaceFrame
    \/ step_evolution_write /\ UNCHANGED ifaceFrame
    \/ run_evolution /\ UNCHANGED ifaceFrame

\* the UI thread ends the handler it runs and the background thread gets to
\* run: both are threads of the interpreter, which lets each of them run
SpecIface ==
    /\ InitIface
    /\ [][NextIface]_vars
    /\ WF_vars(toggle_evolution_write /\ UNCHANGED ifaceFrame)
    /\ WF_vars(step_evolution_write /\ UNCHANGED ifaceFrame)
    /\ WF_vars(run_evolution /\ UNCHANGED ifaceFrame)


----------------------------------------------------------------------------
----------------------------------------------------------------------------
(* C7: within one run, a call of get_connection_id (get_split_node_id) for a  *)
(* pair that was asked before returns the id the pair already has and leaves *)
(* the counter where it was; an id once given to a pair never changes,       *)
(* whatever calls of the getters and of the sync operations come between.    *)
IdsAreStable ==
    [][/\ \A k \in DOMAIN connection_ids :
            k \in DOMAIN connection_ids' /\ connection_ids'[k] = connection_ids[k]
       /\ \A k \in DOMAIN split_node_ids :
            k \in DOMAIN split_node_ids' /\ split_node_ids'[k] = split_node_ids[k]
       /\ (lastCall'.op = "connection" /\ lastCall'.key \in DOMAIN connection_ids)
            => /\ lastCall'.id = connection_ids[lastCall'.key]
               /\ next_connection_id' = next_connection_id
       /\ (lastCall'.op = "split" /\ lastCall'.key \in DOMAIN split_node_ids)
            => /\ lastCall'.id = split_node_ids[lastCall'.key]
               /\ next_node_id' = next_node_id
      ]_vars

\* a pair asked a second time after a sync moved the counter past the ids given
WitnessSecondCall ==
    /\ lastCall.op = "connection"
    /\ lastCall.hit
    /\ next_connection_id > Cardinality(DOMAIN connection_ids)

----------------------------------------------------------------------------
\* the list is ordered by fitness in the direction given
Ordered(pop, ascending_order) ==
    \A i \in 1..(Len(pop) - 1) :
        IF ascending_order THEN fitness(pop[i]) <= fitness(pop[i + 1])
        ELSE fitness(pop[i]) >= fitness(pop[i + 1])

(* C8: whenever the sorted flag of the population is set, the individuals   *)
(* are ordered by fitness in the configured direction, add_individual       *)
(* included, for the ascending and the descending order.                    *)
SortedFlagMeansOrdered ==
    sorted => Ordered(population, options.ascending_order)

(* C9: after sort(), every invalid individual of the population comes after *)
(* all the valid ones.                                                      *)
InvalidAfterValid ==
    popOp \in {"sort", "update"} =>
        \A i, j \in DOMAIN population :
            (~is_valid(population[i]) /\ is_valid(population[j])) => j < i

----------------------------------------------------------------------------
\* score a is not worse than score b in the direction given
NotWorse(a, b, ascending_order) == IF ascending_order THEN a <= b ELSE a >= b

(* C5: with elite_size >= 1, once the elite holds an entry it always holds   *)
(* one, and no step makes the best score of the elite worse, whatever        *)
(* happens to the population between the updates.                            *)
EliteBestNeverRegresses ==
    [][(options.elite_size >= 1 /\ elite_scores # <<>>) =>
          /\ elite_scores' # <<>>
          /\ NotWorse(elite_scores'[1], elite_scores[1], options.ascending_order)]_vars

\* an update has just kept an old entry at the head of the elite although
\* every individual of the population is strictly worse
WitnessEliteKeptOverWorsePopulation ==
    /\ popOp = "elite_update"
    /\ options.elite_size >= 1
    /\ elite_scores # <<>>
    /\ population # <<>>
    /\ \A i \in DOMAIN population :
           ~NotWorse(fitness(population[i]), elite_scores[1], options.ascending_order)

(* C6: the elite never holds more than elite_size individuals, its scores    *)
(* are ordered best first, and the score stored at each position is the      *)
(* fitness of the individual stored at that position.                        *)
EliteIsBoundedSortedAndAligned ==
    /\ Len(elite) <= options.elite_size
    /\ Len(elite_scores) = Len(elite)
    /\ \A i \in 1..(Len(elite_scores) - 1) :
           NotWorse(elite_scores[i], elite_scores[i + 1], options.ascending_order)
    /\ \A i \in DOMAIN elite : elite_scores[i] = fitness(elite[i])

\* an update has just filled the elite to elite_size and left out an individual
\* of the population whose fitness is not among the scores kept
WitnessEliteFullAndCut ==
    /\ popOp = "elite_update"
    /\ Len(elite) >= 1
    /\ Len(elite) = options.elite_size
    /\ Len(population) > Len(elite)
    /\ \E i \in DOMAIN population : fitness(population[i]) \notin Range(elite_scores)

----------------------------------------------------------------------------
\* the individual is the other one or a copy of it
SameOrCopy(ind, other) ==
    /\ ind.g = other.g /\ ind.ev = other.ev /\ ind.fit = other.fit /\ ind.err = other.err
    /\ ind.id \in {other.id, -1}

(* C3: with keep_best set, the list a finished selection hands to            *)
(* population.update holds the individual that was the best of the           *)
(* population before the selection (or a copy of it).                        *)
SelectionKeepsBest ==
    (selPc = "done" /\ options.keep_best /\ bestBefore # NoInd) =>
        \E i \in DOMAIN selected : SameOrCopy(selected[i], bestBefore)

\* every individual of the population is invalid
AllInvalid == \A i \in DOMAIN population : ~is_valid(population[i])

(* C10: single_selection makes at most n * m draws and returns at most n    *)
(* individuals; on a population of invalid individuals only, with invalid   *)
(* individuals not allowed, it returns, with fewer individuals than the n   *)
(* asked for and one warning for each of the n slots.                       *)
SingleSelectionIsBounded ==
    /\ (selPc \in {"loop", "raised_select"}
            /\ options.max_single_select_fail >= 1) =>
           /\ draws <= n_selected * options.max_single_select_fail
           /\ Len(selected) <= n_selected
    /\ (AllInvalid /\ ~options.allow_invalid /\ n_selected >= 1) =>
           /\ selPc # "raised_select"
           /\ (selPc = "loop" /\ sel_idx = n_selected) =>
                  (Len(selected) < n_selected /\ warnings = n_selected)

----------------------------------------------------------------------------
(* C4: with keep_best set on an active selector and an evaluation that       *)
(* depends on the genome only, the best fitness of the population at the    *)
(* end of a generation is never worse than it was at the end of the         *)
(* generation before.                                                       *)
BestFitnessIsMonotone ==
    (options.keep_best /\ is_active("selector") /\ envPc = "loop"
        /\ prevBest # {}) =>
        /\ genBest # {}
        /\ \A f \in genBest, h \in prevBest :
               NotWorse(f, h, options.ascending_order)

\* the nodes reached from a set of nodes along enabled connections
RECURSIVE ReachedFrom(_, _)
ReachedFrom(connections, reached) ==
    LET next == {c.out_node : c \in {d \in connections :
                        d.enabled /\ d.in_node \in reached}}
    IN  IF next \subseteq reached THEN reached
        ELSE ReachedFrom(connections, reached \cup next)

OnCycle(g, node) ==
    node \in ReachedFrom(g.connections,
                {c.out_node : c \in {d \in g.connections :
                        d.enabled /\ d.in_node = node}})

(* C2: after any sequence of NEAT mutations and crossovers from the initial
   genomes, the graph of the enabled connections of every individual has no
   cycle: no node is reached from itself along enabled connections. *)
EnabledGraphIsAcyclic ==
    \A k \in DOMAIN neat_population :
        \A node \in neat_population[k].nodes :
            ~OnCycle(neat_population[k], node)

----------------------------------------------------------------------------
\* every individual of the population is valid, and there is one
AllValid ==
    /\ population # <<>>
    /\ \A i \in DOMAIN population : is_valid(population[i])

(* C11: with max_single_select_fail set to -1 the selector is accepted and  *)
(* logs the warning on unlimited fails, and on a population of valid         *)
(* individuals single_selection returns the n_selected individuals asked    *)
(* for.                                                                     *)
UnlimitedFailsFillSelection ==
    (options.max_single_select_fail = -1 /\ selPc = "loop"
        /\ sel_idx = n_selected /\ AllValid) =>
        /\ unlimited_warning
        /\ Len(selected) = n_selected

(* C12: the list a finished selection returns holds no invalid individual  *)
(* when allow_invalid is false, and no two individuals of the same id when  *)
(* allow_copies is false, the individual added by best_preservation         *)
(* included.                                                                *)
SelectionIsValidAndDistinct ==
    selPc = "done" =>
        /\ ~options.allow_invalid =>
               \A i \in DOMAIN selected : is_valid(selected[i])
        /\ ~options.allow_copies =>
               \A i \in DOMAIN selected, j \in DOMAIN selected :
                   selected[i].id = selected[j].id => i = j

(* C13: a call of the tournament single_select returns one of the           *)
(* competitors it drew, without raising: the best valid competitor when     *)
(* one of them is valid, whatever the other ones are, and one of the        *)
(* competitors otherwise.                                                   *)
TournamentReturnsBestValidCompetitor ==
    (options.selector = "tournament" /\ selPc = "loop" /\ population # <<>>) =>
        \A c \in Competitors(population, options.tournament_size),
           i \in DOMAIN population :
            LET r == tournament_select(c, population[i], options.ascending_order)
                valid == {j \in DOMAIN c : is_valid(c[j])}
            IN  /\ ~r.raised
                /\ \E j \in DOMAIN c : r.ind = c[j]
                /\ valid # {} =>
                       /\ is_valid(r.ind)
                       /\ \A j \in valid :
                              NotWorse(fitness(r.ind), fitness(c[j]),
                                       options.ascending_order)

\* the tournament has more competitors than the population has individuals,
\* which are all valid
DegenerateTournament ==
    /\ options.selector = "tournament"
    /\ selPc = "loop"
    /\ AllValid
    /\ options.tournament_size > Len(population)

(* C14: on a non-empty population of valid individuals smaller than the     *)
(* tournament size, a call of the tournament single_select raises no error  *)
(* and returns one winner, which is an individual of the population.        *)
DegenerateTournamentReturnsWinner ==
    DegenerateTournament =>
        /\ Candidates(population, options) # {}
        /\ \A cand \in Candidates(population, options) :
               /\ ~cand.raised
               /\ \E i \in DOMAIN population : cand.ind = population[i]

\* a winner of such a tournament has been selected
WitnessDegenerateTournamentWon ==
    /\ DegenerateTournament
    /\ draws >= 1
    /\ selected # <<>>

----------------------------------------------------------------------------
(* C15: whatever the evaluation function raises for an individual, the      *)
(* evaluate phase goes to its end: every individual of the population is    *)
(* evaluated, the one whose evaluation raised is invalid with the fitness   *)
(* invalid_fit_value, and the generation goes on.                           *)
EvaluatorFailuresAreIsolated ==
    /\ popOp # "evaluate_raised"
    /\ envPc \in {"loop", "elite"} /\ popOp = "evaluate" =>
           \A i \in DOMAIN population :
               /\ population[i].ev
               /\ EvalRaises(population[i].g) =>
                      /\ ~is_valid(population[i])
                      /\ fitness(population[i]) = InvalidFitValue

(* C16: the environment goes from not started to running to finished, a
   generation starts only while the generation counter is below max_gen, and
   the counter never exceeds max_gen, also when it was restored from an
   evolution record or evolve() is called again. *)
GenerationCounterIsBounded ==
    /\ n_gen <= options.max_gen
    /\ envPc \in {"select", "migrate", "cross", "mutate", "evaluate", "elite"} =>
           n_gen - 1 < options.max_gen
\* the activation that switches a phase of new_generation off
PhaseFlag ==
    [select |-> "selector", migrate |-> "migration", cross |-> "crosser",
     mutate |-> "mutator", evaluate |-> "evaluator", elite |-> "elite"]

(* C17: each of the six phases of a generation (select, migrate, cross, mutate,
   evaluate, elite update), run while its activation is off, leaves the
   population, the evaluation states of its individuals and the elite as they
   were. *)
InactivePhasesAreNoOps ==
    [][\A phase \in DOMAIN PhaseFlag :
           (envPc = phase /\ ~is_active(PhaseFlag[phase])) =>
               /\ population' = population
               /\ elite' = elite
               /\ elite_scores' = elite_scores]_vars
(* C18: in one cross phase every individual that was in the population when
   the phase started is considered once as first parent, the offspring added
   during the phase are not, and the phase ends having added at most as many
   offspring as the population held when it started. *)
CrossVisitsStartingPopulationOnce ==
    envPc = "cross" /\ popOp = "cross" =>
        LET size_at_start == Len(population) - _crossed
        IN  /\ cross_idx <= size_at_start
            /\ _crossed <= size_at_start
\* the evaluation state of an individual: get_eval_data()
get_eval_data(ind) == [is_evaluated |-> ind.ev, evaluation |-> <<ind.fit, ind.err>>]

(* C19: the copy of an individual has the id and the evaluation state
   (evaluated flag, fitness, error) of the individual it was copied from: while
   a selection with allow_copies runs, every selected individual, a copy of an
   individual of the population, has the id and the evaluation state of an
   individual of the population. *)
CopyKeepsIdAndEvaluation ==
    selPc = "loop" /\ options.allow_copies =>
        \A k \in DOMAIN selected :
            \E i \in DOMAIN population :
                /\ selected[k].id = population[i].id
                /\ selected[k].g = population[i].g
                /\ get_eval_data(selected[k]) = get_eval_data(population[i])
(* C20: every individual made by create, by a crossover or re-identified by
   has_mutate has an id taken from the counter, and after any sequence of
   creations, crossovers and mutations, without copies, no two individuals of
   the population have the same id. *)
PopulationIdsAreUnique ==
    ~options.allow_copies =>
        /\ \A i \in DOMAIN population : population[i].id \in 0 .. (id_counter - 1)
        /\ \A i, j \in DOMAIN population :
               i # j => population[i].id # population[j].id
(* C21: migrate() leaves the size of the population as it was, the
   floor(size * immigration_rate) immigrants replacing individuals, and the
   number of immigrants reported afterwards is that number, computed from the
   size the population had when migrate() was called. *)
MigrateKeepsSize ==
    [][popOp' = "migrate" =>
           /\ Len(population') = Len(population)
           /\ immigrated' = (Len(population) * options.immigration_rate) \div 10]_vars
(* C22: get_best_ind and get_worst_ind, called with allow_invalid false on the
   population or on a sample, sorted or not, return a valid individual or
   raise, never an invalid individual, and raise whenever the individuals they
   are given include no valid one. *)
ExtremesAreValidOrRaise ==
    lastCall.op \in {"get_best_ind", "get_worst_ind"} =>
        /\ ~lastCall.out.raised => is_valid(lastCall.out.ind)
        /\ ~(\E i \in DOMAIN lastCall.seen : is_valid(lastCall.seen[i])) =>
               lastCall.out.raised
\* the step taken is a successful _add_node that splits conn in the
\* individual at position k
IsAddNodeOf(k, conn) ==
    LET g == neat_population[k]
        r == SplitConnection(g, conn)
    IN  /\ conn.enabled
        /\ neat_population' = [neat_population EXCEPT
                                  ![k] = [nodes |-> r.nodes,
                                          connections |-> r.connections]]
        /\ split_node_ids' = r.split_node_ids
        /\ next_node_id' = r.next_node_id
        /\ connection_ids' = r.connection_ids
        /\ next_connection_id' = r.next_connection_id

(* C23: on the initial NEAT genome with 2 inputs, 1 output and no hidden
   node, one successful _add_node adds one node and two connections, leaves
   the connection it split disabled, and the two new connections are enabled,
   the one into the new node with the weight 1 and the one out of it with the
   weight of the connection that was split. *)
AddNodeOnInitialGenome ==
    [][\A k \in DOMAIN neat_population :
         \A conn \in neat_population[k].connections :
           (neat_population[k] \in SplitGenomes /\ IsAddNodeOf(k, conn)) =>
               LET g == neat_population[k]
                   h == neat_population'[k]
                   fresh == {c \in h.connections : c.id \notin GeneIds(g)}
               IN  /\ Cardinality(h.nodes) = Cardinality(g.nodes) + 1
                   /\ Cardinality(h.connections) = Cardinality(g.connections) + 2
                   /\ \E c \in h.connections : c.id = conn.id /\ ~c.enabled
                   /\ Cardinality(fresh) = 2
                   /\ \A c \in fresh : c.enabled
                   /\ \E c1, c2 \in fresh :
                          /\ c1.in_node = conn.in_node
                          /\ c1.out_node \in h.nodes \ g.nodes
                          /\ c1.weight = 1
                          /\ c2.in_node = c1.out_node
                          /\ c2.out_node = conn.out_node
                          /\ c2.weight = conn.weight]_vars

\* the initial genome of 2 inputs and 1 output after one split of a
\* connection of weight 2
WitnessInitialGenomeSplit ==
    /\ Len(neat_population) = 1
    /\ next_node_id = 2 + 1 + 1
    /\ LET h == neat_population[1]
       IN  /\ Cardinality(h.nodes) = 2 + 1 + 1
           /\ Cardinality(h.connections) = 2 * 1 + 2
           /\ Cardinality({c \in h.connections : ~c.enabled}) = 1
           /\ \E c \in h.connections, d \in h.connections :
                  /\ ~c.enabled /\ c.weight = 2
                  /\ d.enabled /\ d.weight = 2 /\ d.out_node = c.out_node
                  /\ d.in_node = 2 + 1
\* ind1 is the better parent under the direction of the order when its
\* fitness compares as told to the one of ind2
Ind1IsBetter(ascending_order, order) ==
    IF ascending_order THEN order = "less" ELSE order = "greater"

(* C24: in the NEAT crossover, the fitter parent being the one of better
   fitness under the configured direction of the order, the child has the
   connection ids of the fitter parent when the fitnesses differ, and when
   they are equal a subset of the ids of both parents that holds every id
   the parents share. *)
ChildHasGenesOfFitterParent ==
    \A ascending_order \in BOOLEAN :
    \A i \in DOMAIN neat_population, j \in DOMAIN neat_population :
        LET ind1 == neat_population[i]
            ind2 == neat_population[j]
        IN  /\ \A order \in (IF i = j THEN {} ELSE {"greater", "less"}) :
                 \A child \in CrossChildren(ind1, ind2, {order}) :
                    GeneIds(child) =
                        GeneIds(IF Ind1IsBetter(ascending_order, order)
                                THEN ind1 ELSE ind2)
            /\ \A child \in CrossChildren(ind1, ind2, {"equal"}) :
                    /\ GeneIds(child) \subseteq GeneIds(ind1) \cup GeneIds(ind2)
                    /\ GeneIds(ind1) \cap GeneIds(ind2) \subseteq GeneIds(child)
\* the same connection ids with the same weights
SameStructure(genome1, genome2) ==
    /\ GeneIds(genome1) = GeneIds(genome2)
    /\ \A gene_id \in GeneIds(genome1) :
           GeneOf(genome1, gene_id).weight = GeneOf(genome2, gene_id).weight

\* the individuals a speciated population and its species hold
SpeciatedIndividuals ==
    Range(population)
        \cup UNION {{_species[k].representative} \cup Range(_species[k].members) :
                      k \in DOMAIN _species}

(* C25: for NEAT genomes with integer weights the genetic distance is the
   same in both directions, and it is zero between a genome and an exact
   structural copy of it (the same connection ids and weights): checked
   between the genome of every individual the population or a species holds
   and every genome of the bounded set. *)
GeneticDistanceIsSymmetric ==
    \A a \in SpeciatedIndividuals :
    \A genome \in SpeciesGenomes \cup {b.g : b \in SpeciatedIndividuals} :
        LET d == _calculate_genetic_distance(a.g, genome)
            e == _calculate_genetic_distance(genome, a.g)
        IN  /\ d.num * e.den = e.num * d.den
            /\ SameStructure(a.g, genome) => d.num = 0

\* a speciation has measured two individuals of the population that share a
\* connection id, differ in another one and are at a distance that is not
\* zero, and the bounded set holds a structural copy of the first
WitnessDistancesMeasured ==
    /\ popOp = "update"
    /\ \E i \in DOMAIN population, j \in DOMAIN population :
           LET a == population[i]  b == population[j]
           IN  /\ _calculate_genetic_distance(a.g, b.g).num > 0
               /\ GeneIds(a.g) \cap GeneIds(b.g) # {}
               /\ GeneIds(a.g) # GeneIds(b.g)
               /\ \E genome \in SpeciesGenomes :
                      SameStructure(a.g, genome) /\ a.g.connections # {}
\* the species founded in the speciation pass that has just run: a species
\* gets the age 1 in the pass that creates it
FoundedInLastPass ==
    {k \in DOMAIN _species : _species[k].age = 1}

(* C26: two genetically identical individuals never found two different
   species in one speciation pass: right after a pass (at construction or
   after an update) no two species created in this pass have founders of the
   same connection ids and weights. *)
IdenticalIndividualsFoundOneSpecies ==
    popOp \in {"init", "update"} =>
        \A j \in FoundedInLastPass, k \in FoundedInLastPass :
            j # k => ~SameStructure(_species[j].members[1].g,
                                    _species[k].members[1].g)
\* the number of times the individual of this id is listed as a member of a
\* species
RECURSIVE TimesListed(_, _)
TimesListed(species, id) ==
    IF species = <<>> THEN 0
    ELSE Cardinality({i \in DOMAIN Head(species).members :
                         Head(species).members[i].id = id})
             + TimesListed(Tail(species), id)

(* C29: after every speciation pass (at construction and after each update
   of the population) the member lists of the species are a partition of the
   population: every individual of the population is listed exactly once,
   and every listed member is in the population. *)
SpeciesPartitionPopulation ==
    popOp \in {"init", "update"} =>
        /\ \A i \in DOMAIN population :
               TimesListed(_species, population[i].id) = 1
        /\ \A k \in DOMAIN _species : \A i \in DOMAIN _species[k].members :
               InList(_species[k].members[i], population)
(* C27: for every NEAT genome reached by mutations and crossovers, a
   successful _add_node leaves the genome with exactly one more node, exactly
   two more connections and exactly one connection that was enabled and is
   now disabled, also when it splits a connection that was split before in
   the same genome and enabled again. *)
AddNodeGrowsGenome ==
    [][\A k \in DOMAIN neat_population :
         \A conn \in neat_population[k].connections :
           IsAddNodeOf(k, conn) =>
               LET g == neat_population[k]
                   h == neat_population'[k]
                   turned_off == {c \in g.connections :
                                     /\ c.enabled
                                     /\ \E d \in h.connections :
                                            d.id = c.id /\ ~d.enabled}
               IN  /\ Cardinality(h.nodes \ g.nodes) = 1
                   /\ Cardinality(h.nodes) = Cardinality(g.nodes) + 1
                   /\ Cardinality(h.connections) = Cardinality(g.connections) + 2
                   /\ Cardinality(turned_off) = 1]_vars
\* the step taken is the PMX crossover of ind1 with ind2 at the cut points idxs
IsCrossPMXOf(ind1, ind2, idxs) ==
    /\ lastOp' = "pmx"
    /\ permutation' = MultiPointCross(ind1, ind2, idxs)
    /\ mate' = mate

(* C28: after a PMX crossover over the cut span [idx1, idx2] the offspring
   has the values of the second parent at every index of the span, each swap
   having moved the wanted value from the place it had at that moment. *)
OffspringHasSpanOfSecondParent ==
    [][\A ind1 \in {permutation, mate}, ind2 \in {permutation, mate} :
         \A idxs \in CutIdxs :
           IsCrossPMXOf(ind1, ind2, idxs) =>
               \A i \in idxs[1] .. idxs[2] :
                   At(permutation', i) = At(ind2, i)]_vars
(* C30: in the interactive environment every call of step_evolution, from
   the stopped, the running or the paused state, is followed by the end of a
   generation, under every interleaving of the UI thread and the background
   thread. *)
StepRunsAGeneration ==
    step_requested ~> ~step_requested
============================================================================
